---- MODULE Spec2Model ----
(***************************************************************************)
(* Model of the light scheduling engine of keep94/marvin2:                 *)
(*   lights.Set              the light-set algebra (package lights)        *)
(*   utils.TaskCollection    the registry of running (task, execution)     *)
(*   utils.MultiExecutor     Start / MaybeStart / Stop over the registry   *)
(*   utils.MultiTimer        Schedule and the timed tasks it runs          *)
(*                                                                         *)
(* utils.MultiExecutor wraps tasks.MultiExecutor of the module             *)
(* github.com/keep94/tasks, whose source is not part of this repository.   *)
(* Its Start is modelled as the repository documents and tests it: one     *)
(* loop goroutine takes the tasks handed to Start one at a time, ends the  *)
(* executions TaskCollection.Conflicts returns, waits for them to be done, *)
(* runs the new task, adds it to the collection and hands its execution    *)
(* back; a task is removed from the collection when its body returns,      *)
(* before its execution reports done (utils.go 151-153, 242-244, 261;      *)
(* utils_test.go 263-296).                                                 *)
(***************************************************************************)
EXTENDS Integers, Sequences, FiniteSets, TLC

(***************************************************************************)
(* Bounds of the model.                                                    *)
(***************************************************************************)
\* lights are numbered 1..MaxLight
MaxLight == 2
\* total number of executions one MultiExecutor starts in a run
MaxExecs == 2

LightIds == 1..MaxLight

(***************************************************************************)
(* package lights: Set is map[int]bool, nil meaning all lights.  A Set is  *)
(* modelled by the flag "all" (the nil map) and "ids", the keys mapped to  *)
(* true; every operation of the package skips keys mapped to false.        *)
(***************************************************************************)
All == [all |-> TRUE, ids |-> {}]

None == [all |-> FALSE, ids |-> {}]

New(lightIds) == [all |-> FALSE, ids |-> lightIds]

IsAll(l) == l.all

IsNone(l) == IF l.all THEN FALSE ELSE ~(\E i \in l.ids : TRUE)

\* an overlap test that looks at listed ids only
OverlapsWithListed(l, other) == \E i \in l.ids : i \in other.ids

OverlapsWith(l, other) ==
  IF l.all THEN ~IsNone(other)
  ELSE IF other.all THEN ~IsNone(l)
  ELSE \E i \in l.ids : i \in other.ids

Intersect(l, other) ==
  IF l.all THEN other
  ELSE IF other.all THEN l
  ELSE New({i \in l.ids : i \in other.ids})

\* l is a subset of other
Within(l, other) ==
  IF other.all THEN TRUE ELSE IF l.all THEN FALSE ELSE l.ids \subseteq other.ids

\* a Subtract for which All as the other set takes nothing away
SubtractAllTakesNothing(l, other) ==
  IF other.all THEN l
  ELSE New({i \in l.ids : i \notin other.ids})

\* Subtract panics when the receiver is All
SubtractPanics(l, other) == l.all

Subtract(l, other) ==
  IF other.all THEN None
  ELSE New({i \in l.ids : i \notin other.ids})

SetAdd(l, other) ==
  IF l.all \/ other.all THEN All
  ELSE New(l.ids \cup other.ids)

\* Builder.Add: once the builder holds All it stays All
BuilderAdd(b, other) ==
  IF b.all THEN b
  ELSE IF other.all THEN All
  ELSE New(b.ids \cup other.ids)

\* the light sets a caller may request
LightSets == {All} \cup {New(s) : s \in SUBSET LightIds}

(***************************************************************************)
(* Hue tasks.  A HueTask is an Id with a HueAction; the actions are the    *)
(* ones of utils_test.go and ops.StaticHueAction.                          *)
(***************************************************************************)
kExtraLight == MaxLight

HueTasks == {"long", "long10", "longAll", "longFalse", "static"}

\* the lights a StaticHueAction without an entry for light 0 has colors for
StaticLights == New({1})

\* the UsedLights of the HueAction of hue task "any", a function from the
\* light set suggested to the light set used
VARIABLE anyAction

\* the number of lights of a set, All having more than any other
SetSize(l) == IF l.all THEN MaxLight + 1 ELSE Cardinality(l.ids)

\* the functions on the light sets with S within T => f[S] within f[T],
\* built up from the smallest light set to the largest: fs are those on
\* the light sets seen
RECURSIVE MonotoneFunctions(_, _)
MonotoneFunctions(seen, fs) ==
  IF seen = LightSets THEN fs
  ELSE LET l == CHOOSE l \in LightSets \ seen :
                  \A m \in LightSets \ seen : SetSize(l) <= SetSize(m)
           ok == {p \in fs \X LightSets :
                    \A m \in seen : Within(m, l) => Within(p[1][m], p[2])}
       IN MonotoneFunctions(seen \cup {l}, {p[1] @@ (l :> p[2]) : p \in ok})

\* every function on the light sets, whatever HueAction asks of it
AnyFunctions == [LightSets -> LightSets]

\* HueAction.UsedLights: the functions that obey the two axioms,
\* UsedLights(UsedLights(A)) == UsedLights(A), and A subset of B implies
\* UsedLights(A) subset of UsedLights(B)
UsedLightsFunctions ==
  {f \in MonotoneFunctions({}, {<<>>}) : \A l \in LightSets : f[f[l]] = f[l]}

\* a HueAction that uses no lights
NoAction == [l \in LightSets |-> None]

UsedLights(h, lightSet) ==
  CASE h = "long" -> lightSet
    [] h = "static" -> Intersect(StaticLights, lightSet)
    [] h = "long10" -> SetAdd(lightSet, New({kExtraLight}))
    [] h = "longAll" -> All
    [] h = "longFalse" -> None
    [] h = "any" -> anyAction[lightSet]

(***************************************************************************)
(* utils.HueTaskWrapper and utils.TaskCollection.  The collection is the   *)
(* slice of taskExecution pairs in insertion order; an entry carries the   *)
(* wrapper (H, Ls), its execution e and whether e.End() has been called.   *)
(***************************************************************************)
Nil == 0

HueTaskWrapper(h, ls) == [H |-> h, Ls |-> ls]

\* a wrapper that conflicts with nothing
NeverConflictsWith(t, other) == FALSE

ConflictsWith(t, other) == OverlapsWith(t.Ls, other.Ls)

\* Set.Slice: the ids in ascending order
RECURSIVE Slice(_)
Slice(ids) ==
  IF ids = {} THEN <<>>
  ELSE LET m == CHOOSE i \in ids : \A j \in ids : i <= j
       IN <<m>> \o Slice(ids \ {m})

\* Set.String: "All", "None" or the ids in ascending order, comma separated
String(l) ==
  IF l.all THEN <<"All">>
  ELSE IF Slice(l.ids) = <<>> THEN <<"None">>
  ELSE [k \in 1..Len(Slice(l.ids)) |-> ToString(Slice(l.ids)[k])]

\* strconv.Atoi of a part of a string: the numerals up to MaxLight are the
\* numbers there are
Atoi(part) ==
  IF \E n \in 0..MaxLight : ToString(n) = part
  THEN [err |-> FALSE, light |-> CHOOSE n \in 0..MaxLight : ToString(n) = part]
  ELSE [err |-> TRUE, light |-> 0]

\* Parse, the loop over the parts: the first part that is no number or no
\* positive number ends it with an error and a nil result
RECURSIVE ParseParts(_, _)
ParseParts(parts, lightSet) ==
  IF parts = <<>> THEN [err |-> FALSE, result |-> New(lightSet)]
  ELSE LET a == Atoi(Head(parts))
       IN IF a.err THEN [err |-> TRUE, result |-> All]
          ELSE IF a.light <= 0 THEN [err |-> TRUE, result |-> All]
          ELSE ParseParts(Tail(parts), lightSet \cup {a.light})

\* lights.Parse.  A string is the sequence of the parts its commas
\* separate (strings.Split), the empty string being the single empty part;
\* the parts have no spaces around them.
Parse(s) ==
  IF s = <<"">> THEN [err |-> FALSE, result |-> All] ELSE ParseParts(s, {})

\* an InvString that is Parse
InvStringAsParse(s) == Parse(s)

\* lights.InvString
InvString(s) ==
  IF s = <<"All">> THEN [err |-> FALSE, result |-> All]
  ELSE IF s = <<"None">> THEN [err |-> FALSE, result |-> None]
  ELSE Parse(s)

\* HueTaskWrapper.TaskId: "<H.Id>:<Ls>"
TaskId(t) == <<t.H, String(t.Ls)>>

\* TaskCollection.Add
Add(tasks, t, e) == Append(tasks, [t |-> t, e |-> e, ended |-> FALSE])

\* TaskCollection.Remove, the search: the index of the first entry that
\* holds the task, or -1.  A task is a pointer to a wrapper, made for one
\* execution: the execution e stands for the pointer.
RemoveIdx(tasks, e) ==
  IF \E i \in 1..Len(tasks) : tasks[i].e = e
  THEN CHOOSE i \in 1..Len(tasks) :
         tasks[i].e = e /\ \A j \in 1..(i - 1) : tasks[j].e # e
  ELSE -1

\* a Remove that cuts the slice at idx without copying its tail down
RemoveAtNoCopy(tasks, idx) ==
  IF idx # -1 THEN SubSeq(tasks, 1, idx - 1) ELSE tasks

\* TaskCollection.Remove, the deletion: copy(c.tasks[idx:], c.tasks[idx+1:])
\* and c.tasks[:idx+copied]
RemoveAt(tasks, idx) ==
  IF idx # -1
  THEN SubSeq(tasks, 1, idx - 1) \o SubSeq(tasks, idx + 1, Len(tasks))
  ELSE tasks

\* TaskCollection.Remove
Remove(tasks, e) == RemoveAt(tasks, RemoveIdx(tasks, e))

\* the nil Task
NilTask == HueTaskWrapper("nil", None)

\* a Conflicts for which a nil task conflicts with nothing
ConflictsSliceNotNil(tasks, task) ==
  LET hit == SelectSeq(tasks, LAMBDA x : task # NilTask /\ ConflictsWith(x.t, task))
  IN [i \in 1..Len(hit) |-> hit[i].e]

\* a Conflicts that fills its slice from the last entry to the first
RECURSIVE ConflictsSliceBackwards(_, _)
ConflictsSliceBackwards(tasks, task) ==
  IF tasks = <<>> THEN <<>>
  ELSE LET result == ConflictsSliceBackwards(Tail(tasks), task)
       IN IF task = NilTask \/ ConflictsWith(Head(tasks).t, task)
          THEN Append(result, Head(tasks).e) ELSE result

\* TaskCollection.Conflicts as the code computes it: the slice of the
\* executions of the entries that conflict with task, or of all entries when
\* task is nil, filled from the first entry to the last
RECURSIVE ConflictsSlice(_, _)
ConflictsSlice(tasks, task) ==
  IF tasks = <<>> THEN <<>>
  ELSE LET result == ConflictsSlice(SubSeq(tasks, 1, Len(tasks) - 1), task)
           last == tasks[Len(tasks)]
       IN IF task = NilTask \/ ConflictsWith(last.t, task)
          THEN Append(result, last.e) ELSE result

\* every registered execution, conflicting or not
ConflictsEvery(tasks, t) == {tasks[i].e : i \in 1..Len(tasks)}

\* TaskCollection.Conflicts: the executions of the conflicting entries
Conflicts(tasks, t) ==
  LET result == ConflictsSlice(tasks, t)
  IN {result[k] : k \in 1..Len(result)}

\* TaskCollection.Tasks: a copy of the registered wrappers
Tasks(tasks) == [i \in 1..Len(tasks) |-> tasks[i].t]

\* a FindByTaskId that looks at the hue task of the id only
FindByHueTask(tasks, taskId) ==
  IF \E i \in 1..Len(tasks) : TaskId(tasks[i].t)[1] = taskId[1]
  THEN LET first == CHOOSE i \in 1..Len(tasks) :
                      /\ TaskId(tasks[i].t)[1] = taskId[1]
                      /\ \A j \in 1..(i - 1) : TaskId(tasks[j].t)[1] # taskId[1]
       IN tasks[first].e
  ELSE Nil

\* TaskCollection.FindByTaskId: the first entry with that id, or nil
FindByTaskId(tasks, taskId) ==
  IF \E i \in 1..Len(tasks) : TaskId(tasks[i].t) = taskId
  THEN LET first == CHOOSE i \in 1..Len(tasks) :
                      /\ TaskId(tasks[i].t) = taskId
                      /\ \A j \in 1..(i - 1) : TaskId(tasks[j].t) # taskId
       IN tasks[first].e
  ELSE Nil

\* no execution is told to end
EndNone(tasks, es) == tasks

\* Execution.End on every entry whose execution is in es
EndAll(tasks, es) ==
  [i \in 1..Len(tasks) |->
     IF tasks[i].e \in es THEN [tasks[i] EXCEPT !.ended = TRUE] ELSE tasks[i]]

(***************************************************************************)
(* MultiExecutor.Start and MultiExecutor.MaybeStart up to the point where  *)
(* the wrapper is handed to tasks.MultiExecutor.Start.  NoTask is the      *)
(* "return nil" outcome.                                                   *)
(***************************************************************************)
NoTask == [run |-> FALSE, panic |-> FALSE, t |-> HueTaskWrapper("long", None)]

Panic == [run |-> FALSE, panic |-> TRUE, t |-> HueTaskWrapper("long", None)]

RunTask(h, ls) == [run |-> TRUE, panic |-> FALSE, t |-> HueTaskWrapper(h, ls)]

\* a Start without the usedLights.IsNone() return
StartUnconditionally(h, lightSet) == RunTask(h, UsedLights(h, lightSet))

\* MultiExecutor.Start: nil when the task uses no lights
Start(h, lightSet) ==
  LET usedLights == UsedLights(h, lightSet)
  IN IF IsNone(usedLights) THEN NoTask ELSE RunTask(h, usedLights)

\* the loop over runningTasks of MaybeStart: the union of the lights in
\* use; hasAll when a running task uses all lights (the early return)
RECURSIVE LightsInUse(_, _, _)
LightsInUse(runningTasks, i, b) ==
  IF i > Len(runningTasks) THEN [hasAll |-> FALSE, set |-> b]
  ELSE IF IsAll(runningTasks[i].Ls) THEN [hasAll |-> TRUE, set |-> b]
  ELSE LightsInUse(runningTasks, i + 1, BuilderAdd(b, runningTasks[i].Ls))

\* MaybeStart's last steps without the subtraction of the lights in use
WillUseNeeded(h, neededLights, lightsInUse) == RunTask(h, neededLights)

\* MaybeStart's last steps without the test that nothing needed is in use
WillUseUnchecked(h, neededLights, lightsInUse) ==
  LET neededAndAvailableLights == Subtract(neededLights, lightsInUse)
      lightsThatWillBeUsed == UsedLights(h, neededAndAvailableLights)
  IN IF IsNone(neededAndAvailableLights) THEN NoTask
     ELSE IF IsNone(lightsThatWillBeUsed) THEN NoTask
     ELSE RunTask(h, lightsThatWillBeUsed)

MaybeStartWillUse(h, neededLights, lightsInUse) ==
  LET neededAndAvailableLights == Subtract(neededLights, lightsInUse)
      lightsThatWillBeUsed == UsedLights(h, neededAndAvailableLights)
  IN IF IsNone(neededAndAvailableLights) THEN NoTask
     ELSE IF IsNone(lightsThatWillBeUsed) THEN NoTask
     ELSE IF SubtractPanics(lightsThatWillBeUsed, neededAndAvailableLights)
     THEN Panic
     ELSE IF IsNone(Subtract(lightsThatWillBeUsed, neededAndAvailableLights))
     THEN Start(h, lightsThatWillBeUsed)
     ELSE NoTask

\* a MaybeStart that treats an empty collection like any other
MaybeStartNoDelegation(runningTasks, h, lightSet) ==
  LET neededLights == UsedLights(h, lightSet)
  IN IF IsNone(neededLights) THEN NoTask
     ELSE IF IsAll(neededLights) THEN NoTask
     ELSE RunTask(h, neededLights)

\* a MaybeStart that is Start
MaybeStartAsStart(runningTasks, h, lightSet) ==
  LET usedLights == UsedLights(h, lightSet)
  IN IF IsNone(usedLights) THEN NoTask ELSE RunTask(h, usedLights)

MaybeStart(runningTasks, h, lightSet) ==
  LET neededLights == UsedLights(h, lightSet)
      inUse == LightsInUse(runningTasks, 1, None)
  IN IF Len(runningTasks) = 0 THEN Start(h, lightSet)
     ELSE IF IsNone(neededLights) THEN NoTask
     ELSE IF IsAll(neededLights) THEN NoTask
     ELSE IF inUse.hasAll THEN NoTask
     ELSE MaybeStartWillUse(h, neededLights, inUse.set)

(***************************************************************************)
(* utils.TimerTaskWrapper.  Times are clock ticks of half a second.        *)
(***************************************************************************)
MaxTime == 1

\* total number of timed executions one MultiTimer starts in a run
MaxTimers == 1

Times == 0..MaxTime

\* the hue tasks given to a MultiTimer
TimerHueTasks == {"long", "longFalse"}

\* time.Time.Unix: whole seconds
Unix(time) == time \div 2

\* time.Unix(sec, 0): the instant at which the second sec begins
FromUnix(sec) == sec * 2

TimerTaskWrapper(h, ls, startTime) == [H |-> h, Ls |-> ls, StartTime |-> startTime]

NoTimer == TimerTaskWrapper("long", None, 0)

\* timed tasks that conflict whenever their lights overlap
TimerConflictsWithAnyTime(t, otherTask) == OverlapsWith(t.Ls, otherTask.Ls)

\* a ConflictsWith that compares the start times as they are
TimerConflictsWithExactTime(t, otherTask) ==
  t.StartTime = otherTask.StartTime /\ OverlapsWith(t.Ls, otherTask.Ls)

TimerConflictsWith(t, otherTask) ==
  Unix(t.StartTime) = Unix(otherTask.StartTime) /\ OverlapsWith(t.Ls, otherTask.Ls)

\* TimerTaskWrapper.TaskId: "<H.Id>:<StartTime.Unix()>:<Ls>"
TimerTaskId(t) == <<t.H, Unix(t.StartTime), String(t.Ls)>>

\* TaskCollection.Add of a timed task; its body is about to run
AddTimer(coll, t, e) ==
  Append(coll, [t |-> t, e |-> e, ended |-> FALSE, pc |-> "do"])

\* a Conflicts that returns every timed execution
TimerConflictsEvery(coll, t) == {coll[i].e : i \in 1..Len(coll)}

\* TaskCollection.Conflicts over timed tasks
TimerConflicts(coll, t) ==
  {coll[i].e : i \in {k \in 1..Len(coll) : TimerConflictsWith(coll[k].t, t)}}

\* AtTimeTaskStore.Add
StoreAdd(st, t) ==
  Append(st, [Id |-> TimerTaskId(t), H |-> t.H, Ls |-> t.Ls,
              Time |-> Unix(t.StartTime)])

\* a store whose Remove deletes nothing
StoreRemoveNothing(st, scheduleId) == st

\* AtTimeTaskStore.Remove(scheduleId)
StoreRemove(st, scheduleId) == SelectSeq(st, LAMBDA r : r.Id # scheduleId)

\* a lookup that finds the first timed task whatever the id
TimerFindFirst(coll, taskId) == IF Len(coll) > 0 THEN coll[1].e ELSE Nil

\* TaskCollection.FindByTaskId over timed tasks
TimerFindByTaskId(coll, taskId) ==
  IF \E i \in 1..Len(coll) : TimerTaskId(coll[i].t) = taskId
  THEN LET first == CHOOSE i \in 1..Len(coll) :
                      /\ TimerTaskId(coll[i].t) = taskId
                      /\ \A j \in 1..(i - 1) : TimerTaskId(coll[j].t) # taskId
       IN coll[first].e
  ELSE Nil

\* the light sets Schedule is called with: all lights, none, the first
\* light, the last light
TimerLightSets == {All, None, New({1}), New({MaxLight})}

\* the schedule ids Cancel is called with
TimerTaskIds ==
  {TimerTaskId(TimerTaskWrapper(h, ls, startTime)) :
     h \in TimerHueTasks, ls \in LightSets, startTime \in Times}

\* what AtTimeTaskStore.All may return when a MultiTimer is constructed:
\* records that Schedule stored earlier, for all lights or for light 1,
\* listed by start time
StoredRecords ==
  {StoreAdd(<<>>, TimerTaskWrapper("long", ls, startTime))[1] :
     ls \in {All, New({1})},
     startTime \in {FromUnix(sec) : sec \in 0..(Unix(MaxTime) + 1)}}

StoredBefore(r, q) ==
  \/ r.Time < q.Time
  \/ r.Time = q.Time /\ r.Ls.all /\ ~q.Ls.all

StoredLists ==
  UNION {{l \in [1..n -> StoredRecords] :
            \A i \in 1..(n - 1) : StoredBefore(l[i], l[i + 1])} :
         n \in 0..MaxTimers}

(***************************************************************************)
(* State.                                                                  *)
(*   sut       the object the goroutines call: a MultiExecutor, or a       *)
(*             MultiTimer over a store and a HueTaskBeginner               *)
(*   tasks     TaskCollection.tasks of the MultiExecutor                   *)
(*   nextExec  the next execution tasks.MultiExecutor creates              *)
(*   loop      the loop goroutine of tasks.MultiExecutor: idle, or         *)
(*             interrupting the conflicts of the task t handed in by the   *)
(*             call op of goroutine caller                                 *)
(*   call      per calling goroutine: the call in progress, the wrapper    *)
(*             it is handing in, the execution it got or waits for         *)
(*             (for Cancel also where the entry it found stood)            *)
(*   obs       what a single-goroutine client has seen of its last call:   *)
(*             the arguments, the tasks registered when it was made, and   *)
(*             the result (as the unit tests read them)                    *)
(*   scheduled, nextTimer, sloop                                           *)
(*             the same three for MultiTimer.scheduler; an entry of        *)
(*             scheduled also says where the body of its timed task is     *)
(*   store     the records of the AtTimeTaskStore                          *)
(*   now       the clock                                                   *)
(*   begun     the calls of HueTaskBeginner.Begin so far                   *)
(*   stack     a Stack: where its loop stands, which of Base and Extra is  *)
(*             paused, the state of the lights, the snapshot of the loop   *)
(*             and the lights Snapshot or Restore has still to visit; the  *)
(*             other variables of the executor are those of Stack.Base     *)
(*   done      the executions whose Done channel is closed, those of the   *)
(*             MultiExecutor and those of MultiTimer.scheduler             *)
(*   rwmutex   TaskCollection.rwmutex when goroutines call the methods of  *)
(*             the collection themselves: the goroutine holding it for     *)
(*             writing, the goroutines holding it for reading              *)
(*   recover   the constructor of the MultiTimer: the stored entries it    *)
(*             has still to schedule, how many it has scheduled, and the   *)
(*             time at which it read the store                             *)
(*   storeCalls the number of calls of store.Add and of store.Remove       *)
(***************************************************************************)
VARIABLES sut, tasks, nextExec, loop, call, obs,
          scheduled, nextTimer, sloop, store, now, begun,
          recover, storeCalls, stack, rwmutex, done

evars == <<tasks, nextExec, loop>>

tvars == <<scheduled, nextTimer, sloop, store, now, begun, recover, storeCalls>>

vars == <<sut, tasks, nextExec, loop, call, obs,
          scheduled, nextTimer, sloop, store, now, begun,
          recover, storeCalls, stack, rwmutex, anyAction, done>>

Goroutines == {"g1", "g2"}

NoRecovery == [all |-> <<>>, todo |-> <<>>, done |-> 0, at |-> 0]

NoStoreCalls == [add |-> 0, remove |-> 0]

IdleLoop ==
  [state |-> "idle", caller |-> "none", op |-> "none", t |-> NoTask.t,
   conflicts |-> {}]

IdleTimerLoop ==
  [state |-> "idle", caller |-> "none", t |-> NoTimer, conflicts |-> {}]

\* lightColors == nil, and a LightColors map
NilColors == [nil |-> TRUE, of |-> <<>>]

LightColors(of) == [nil |-> FALSE, of |-> of]

\* no Stack: the executor is not paused
NoStack ==
  [pc |-> "none", paused |-> [Base |-> FALSE, Extra |-> FALSE],
   lights |-> [l \in LightIds |-> 0], colors |-> NilColors, todo |-> {},
   attempted |-> {}]

\* no execution is done
NoDone == [e |-> {}, timer |-> {}]

\* a sync.RWMutex nobody holds
Unlocked == [w |-> "none", r |-> {}]

\* the locals of a method of TaskCollection: idx of Remove, the slice Tasks
\* or Conflicts made and its length, the taskId of FindByTaskId
NoLocals == [idx |-> -1, result |-> <<>>, n |-> 0, id |-> <<>>]

IdleCall ==
  [pc |-> "idle", op |-> "none", t |-> NoTask.t, timer |-> NoTimer, e |-> Nil,
   found |-> "none", local |-> NoLocals]

NoObs ==
  [op |-> "none", h |-> "long", lightSet |-> None, id |-> <<>>,
   registered |-> <<>>, ret |-> "nil", t |-> NoTask.t, e |-> Nil,
   other |-> None, str |-> <<>>, result |-> None]

\* an execution that reports done as soon as it is asked
DoneAtOnce(e) == TRUE

\* Execution.Done: the channel is closed
Done(e) == e \in done.e

\* a Done channel that is closed from the start
TimerDoneAtOnce(e) == TRUE

TimerDone(e) == e \in done.timer

\* the Start calls that are about to start an execution
Pending == {c \in DOMAIN call : call[c].pc \in {"send", "recv"}}

CanStartAnother == (nextExec - 1) + Cardinality(Pending) < MaxExecs

CanScheduleAnother == (nextTimer - 1) + Cardinality(Pending) < MaxTimers

\* the same bound with room for one more timed execution, so that a timed
\* entry can meet an earlier one
CanScheduleOneMore == (nextTimer - 1) + Cardinality(Pending) < MaxTimers + 1

TaskIds == {TaskId(HueTaskWrapper(h, ls)) : h \in HueTasks, ls \in LightSets}

InitObjects ==
  /\ tasks = <<>>
  /\ nextExec = 1
  /\ loop = IdleLoop
  /\ obs = NoObs
  /\ scheduled = <<>>
  /\ nextTimer = 1
  /\ sloop = IdleTimerLoop
  /\ store = <<>>
  /\ now = 0
  /\ begun = <<>>
  /\ recover = NoRecovery
  /\ storeCalls = NoStoreCalls
  /\ stack = NoStack
  /\ rwmutex = Unlocked
  /\ anyAction = NoAction
  /\ done = NoDone

\* goroutines sharing one MultiExecutor
Init ==
  /\ sut = "MultiExecutor"
  /\ call = [c \in Goroutines |-> IdleCall]
  /\ InitObjects

\* one goroutine, calling a MultiExecutor or a MultiTimer as the unit tests
\* do
InitSeq ==
  /\ sut \in {"MultiExecutor", "MultiTimer"}
  /\ call = [c \in {"g1"} |-> IdleCall]
  /\ InitObjects

\* the caller has its wrapper (or nil): it returns nil, or blocks sending
\* the wrapper to the loop goroutine (m.me.Start)
Hand(c, op, out) ==
  /\ call[c].pc = "idle"
  /\ ~out.run \/ CanStartAnother
  /\ call' = [call EXCEPT ![c] =
       [IdleCall EXCEPT !.pc = IF out.panic THEN "panic"
                               ELSE IF out.run THEN "send" ELSE "ret",
                        !.op = op, !.t = out.t]]
  /\ UNCHANGED <<sut, done, anyAction, stack, rwmutex, evars, tvars>>

Observe(op, h, lightSet, out) ==
  obs' = [NoObs EXCEPT !.op = op, !.h = h, !.lightSet = lightSet,
                       !.registered = Tasks(tasks),
                       !.ret = IF out.panic THEN "panic"
                               ELSE IF out.run THEN "pending" ELSE "nil"]

\* MultiExecutor.Start(h, lightSet), up to m.me.Start
CallStart(c, h, lightSet) == Hand(c, "Start", Start(h, lightSet))

\* MultiExecutor.MaybeStart(h, lightSet), from m.Tasks() up to m.me.Start
CallMaybeStart(c, h, lightSet) ==
  Hand(c, "MaybeStart", MaybeStart(Tasks(tasks), h, lightSet))

\* tasks.MultiExecutor loop: takes the task of a blocked Start and ends the
\* executions of the conflicting tasks
LoopInterrupt(c) ==
  /\ loop.state = "idle"
  /\ ~stack.paused.Base
  /\ call[c].pc = "send"
  /\ call[c].op \in {"Start", "MaybeStart"}
  /\ LET conflicts == Conflicts(tasks, call[c].t)
     IN /\ tasks' = EndAll(tasks, conflicts)
        /\ loop' = [state |-> "interrupt", caller |-> c, op |-> call[c].op,
                    t |-> call[c].t, conflicts |-> conflicts]
  /\ call' = [call EXCEPT ![c].pc = "recv", ![c].t = NoTask.t]
  /\ UNCHANGED <<sut, done, anyAction, stack, rwmutex, nextExec, tvars>>

\* tasks.MultiExecutor loop: the conflicting executions are done; runs the
\* task, adds it to the collection and hands the execution to the caller
LoopStart ==
  /\ loop.state = "interrupt"
  /\ \A e \in loop.conflicts : Done(e)
  /\ tasks' = Add(tasks, loop.t, nextExec)
  /\ nextExec' = nextExec + 1
  /\ call' = [call EXCEPT ![loop.caller].pc = "ret", ![loop.caller].e = nextExec]
  /\ loop' = IdleLoop
  /\ UNCHANGED <<sut, done, anyAction, stack, rwmutex, tvars>>

\* the body of a running task returns (on its own or because it was
\* ended): it leaves the collection and its execution is done
TaskReturn(i) ==
  /\ i \in 1..Len(tasks)
  /\ tasks' = Remove(tasks, tasks[i].e)
  /\ done' = [done EXCEPT !.e = @ \cup {tasks[i].e}]
  /\ UNCHANGED <<sut, anyAction, stack, rwmutex, nextExec, loop, call, tvars>>

\* MultiExecutor.Stop(taskId): FindByTaskId, e.End(), then waits for Done
CallStop(c, taskId) ==
  /\ call[c].pc = "idle"
  /\ LET e == FindByTaskId(tasks, taskId)
     IN /\ tasks' = IF e = Nil THEN tasks ELSE EndAll(tasks, {e})
        /\ call' = [call EXCEPT ![c] =
             [IdleCall EXCEPT !.pc = IF e = Nil THEN "ret" ELSE "wait",
                              !.op = "Stop", !.e = e]]
  /\ UNCHANGED <<sut, done, anyAction, stack, rwmutex, nextExec, loop, tvars>>

\* <-e.Done() in Stop
StopDone(c) ==
  /\ call[c].pc = "wait"
  /\ call[c].op = "Stop"
  /\ Done(call[c].e)
  /\ call' = [call EXCEPT ![c].pc = "ret"]
  /\ UNCHANGED <<sut, done, anyAction, stack, rwmutex, evars, tvars>>

\* the call returns to its caller
Return(c) ==
  /\ call[c].pc = "ret"
  /\ call' = [call EXCEPT ![c] = IdleCall]
  /\ UNCHANGED <<sut, done, anyAction, stack, rwmutex, evars, tvars>>

(***************************************************************************)
(* MultiTimer.                                                             *)
(***************************************************************************)
\* MultiTimer.Schedule(h, lightSet, startTime), up to m.scheduler.Start
Schedule(canSchedule, c, h, lightSet, startTime) ==
  /\ call[c].pc = "idle"
  /\ LET usedLights == UsedLights(h, lightSet)
     IN IF IsNone(usedLights)
        THEN call' = [call EXCEPT ![c] =
               [IdleCall EXCEPT !.pc = "ret", !.op = "Schedule"]]
        ELSE /\ canSchedule
             /\ call' = [call EXCEPT ![c] =
                  [IdleCall EXCEPT !.pc = "send", !.op = "Schedule",
                     !.timer = TimerTaskWrapper(h, usedLights, startTime)]]
  /\ UNCHANGED <<sut, done, anyAction, stack, rwmutex, evars, tvars>>

CallSchedule(c, h, lightSet, startTime) ==
  Schedule(CanScheduleAnother, c, h, lightSet, startTime)

\* loop of MultiTimer.scheduler: takes the timed task and ends the
\* executions of the timed tasks it conflicts with
TimerLoopInterrupt(c) ==
  /\ sloop.state = "idle"
  /\ call[c].pc = "send"
  /\ call[c].op \in {"Schedule", "New"}
  /\ LET conflicts == TimerConflicts(scheduled, call[c].timer)
     IN /\ scheduled' = EndAll(scheduled, conflicts)
        /\ sloop' = [state |-> "interrupt", caller |-> c,
                     t |-> call[c].timer, conflicts |-> conflicts]
  /\ call' = [call EXCEPT ![c].pc = "recv"]
  /\ UNCHANGED <<sut, done, anyAction, stack, rwmutex, evars, nextTimer, store, now, begun, recover, storeCalls>>

\* loop of MultiTimer.scheduler: runs the timed task and adds it to the
\* collection; schedule returns, to Schedule which goes on to store.Add or
\* to the constructor which goes on to the next stored entry
TimerLoopStart ==
  /\ sloop.state = "interrupt"
  /\ \A e \in sloop.conflicts : TimerDone(e)
  /\ scheduled' = AddTimer(scheduled, sloop.t, nextTimer)
  /\ nextTimer' = nextTimer + 1
  /\ call' = [call EXCEPT
       ![sloop.caller].pc = IF call[sloop.caller].op = "New" THEN "new" ELSE "add",
       ![sloop.caller].e = nextTimer]
  /\ recover' = IF call[sloop.caller].op = "New"
                THEN [recover EXCEPT !.done = @ + 1] ELSE recover
  /\ sloop' = IdleTimerLoop
  /\ UNCHANGED <<sut, done, anyAction, stack, rwmutex, evars, store, now, begun, storeCalls>>

\* m.store.Add at the end of Schedule
ScheduleAdd(c) ==
  /\ call[c].pc = "add"
  /\ store' = StoreAdd(store, call[c].timer)
  /\ storeCalls' = [storeCalls EXCEPT !.add = @ + 1]
  /\ call' = [call EXCEPT ![c].pc = "ret"]
  /\ UNCHANGED <<sut, done, anyAction, stack, rwmutex, evars, scheduled, nextTimer, sloop, now, begun, recover>>

\* TimerTaskWrapper.Do: d := t.StartTime.Sub(e.Now()); d > 0 && e.Sleep(d)
\* a Do that sleeps whatever d is
TimerDoAlwaysSleeps(i) ==
  /\ i \in 1..Len(scheduled)
  /\ scheduled[i].pc = "do"
  /\ scheduled' = [scheduled EXCEPT ![i].pc = "sleep"]
  /\ UNCHANGED <<sut, done, anyAction, stack, rwmutex, evars, call, nextTimer, sloop, store, now, begun, recover, storeCalls>>

\* TimerTaskWrapper.Do: d := t.StartTime.Sub(e.Now()); if d > 0 && ...
TimerDo(i) ==
  /\ i \in 1..Len(scheduled)
  /\ scheduled[i].pc = "do"
  /\ scheduled' = [scheduled EXCEPT ![i].pc =
       IF scheduled[i].t.StartTime - now > 0 THEN "sleep" ELSE "remove"]
  /\ UNCHANGED <<sut, done, anyAction, stack, rwmutex, evars, call, nextTimer, sloop, store, now, begun, recover, storeCalls>>

\* a Sleep that returns true at once
TimerSleepNoWait(i) ==
  /\ i \in 1..Len(scheduled)
  /\ scheduled[i].pc = "sleep"
  /\ scheduled' = [scheduled EXCEPT ![i].pc = "begin"]
  /\ UNCHANGED <<sut, done, anyAction, stack, rwmutex, evars, call, nextTimer, sloop, store, now, begun, recover, storeCalls>>

\* e.Sleep(d) returns: true when the time has come, false when ended
TimerSleep(i) ==
  /\ i \in 1..Len(scheduled)
  /\ scheduled[i].pc = "sleep"
  /\ \/ /\ now >= scheduled[i].t.StartTime
        /\ scheduled' = [scheduled EXCEPT ![i].pc = "begin"]
     \/ /\ scheduled[i].ended
        /\ scheduled' = [scheduled EXCEPT ![i].pc = "remove"]
  /\ UNCHANGED <<sut, done, anyAction, stack, rwmutex, evars, call, nextTimer, sloop, store, now, begun, recover, storeCalls>>

\* t.executor.Begin(t.H, t.Ls)
TimerBegin(i) ==
  /\ i \in 1..Len(scheduled)
  /\ scheduled[i].pc = "begin"
  /\ begun' = Append(begun, [H |-> scheduled[i].t.H, Ls |-> scheduled[i].t.Ls])
  /\ scheduled' = [scheduled EXCEPT ![i].pc = "remove"]
  /\ UNCHANGED <<sut, done, anyAction, stack, rwmutex, evars, call, nextTimer, sloop, store, now, recover, storeCalls>>

\* t.store.Remove(t.TaskId())
TimerStoreRemove(i) ==
  /\ i \in 1..Len(scheduled)
  /\ scheduled[i].pc = "remove"
  /\ store' = StoreRemove(store, TimerTaskId(scheduled[i].t))
  /\ storeCalls' = [storeCalls EXCEPT !.remove = @ + 1]
  /\ scheduled' = [scheduled EXCEPT ![i].pc = "exit"]
  /\ UNCHANGED <<sut, done, anyAction, stack, rwmutex, evars, call, nextTimer, sloop, now, begun, recover>>

\* a Do whose return closes Done and leaves the timed task in the collection
TimerReturnStays(i) ==
  /\ i \in 1..Len(scheduled)
  /\ scheduled[i].pc = "exit"
  /\ scheduled' = [scheduled EXCEPT ![i].pc = "done"]
  /\ done' = [done EXCEPT !.timer = @ \cup {scheduled[i].e}]
  /\ UNCHANGED <<sut, anyAction, stack, rwmutex, evars, call, nextTimer, sloop, store, now, begun, recover, storeCalls>>

\* Do returns: the timed task leaves the collection, its execution is done
TimerReturn(i) ==
  /\ i \in 1..Len(scheduled)
  /\ scheduled[i].pc = "exit"
  /\ scheduled' = Remove(scheduled, scheduled[i].e)
  /\ done' = [done EXCEPT !.timer = @ \cup {scheduled[i].e}]
  /\ UNCHANGED <<sut, anyAction, stack, rwmutex, evars, call, nextTimer, sloop, store, now, begun, recover, storeCalls>>

\* the clock advances
Tick ==
  /\ sut = "MultiTimer"
  /\ now < MaxTime
  /\ now' = now + 1
  /\ UNCHANGED <<sut, done, anyAction, stack, rwmutex, evars, call, scheduled, nextTimer, sloop, store, begun, recover, storeCalls>>

\* a constructor that passes over a stored entry
RecoverSkip(c) ==
  /\ call[c].pc = "new"
  /\ recover.todo # <<>>
  /\ recover' = [recover EXCEPT !.todo = Tail(@)]
  /\ UNCHANGED <<sut, done, anyAction, stack, rwmutex, evars, call, scheduled, nextTimer, sloop, store, now,
                 begun, storeCalls>>

\* NewMultiTimerWithStoreAndClock: result.schedule(...) for the next entry
\* that store.All() returned
RecoverNext(c) ==
  /\ call[c].pc = "new"
  /\ recover.todo # <<>>
  /\ LET r == Head(recover.todo)
     IN call' = [call EXCEPT ![c].pc = "send",
                   ![c].timer = TimerTaskWrapper(r.H, r.Ls, FromUnix(r.Time))]
  /\ recover' = [recover EXCEPT !.todo = Tail(@)]
  /\ UNCHANGED <<sut, done, anyAction, stack, rwmutex, evars, scheduled, nextTimer, sloop, store, now, begun,
                 storeCalls>>

\* NewMultiTimerWithStoreAndClock returns the MultiTimer
NewDone(c) ==
  /\ call[c].pc = "new"
  /\ recover.todo = <<>>
  /\ call' = [call EXCEPT ![c] = IdleCall]
  /\ UNCHANGED <<sut, done, anyAction, stack, rwmutex, evars, tvars>>

\* MultiTimer.Cancel(taskId): FindByScheduleId, e.End(), then waits for Done
CallCancel(c, taskId) ==
  /\ call[c].pc = "idle"
  /\ LET e == TimerFindByTaskId(scheduled, taskId)
     IN /\ scheduled' = IF e = Nil THEN scheduled ELSE EndAll(scheduled, {e})
        /\ call' = [call EXCEPT ![c] =
             [IdleCall EXCEPT !.pc = IF e = Nil THEN "ret" ELSE "wait",
                              !.op = "Cancel", !.e = e,
                              !.timer = IF e = Nil THEN NoTimer
                                        ELSE (CHOOSE x \in {scheduled[i] : i \in 1..Len(scheduled)} : x.e = e).t,
                              !.found = IF e = Nil THEN "none"
                                        ELSE (CHOOSE x \in {scheduled[i] : i \in 1..Len(scheduled)} : x.e = e).pc]]
  /\ UNCHANGED <<sut, done, anyAction, stack, rwmutex, evars, nextTimer, sloop, store, now, begun, recover,
                 storeCalls>>

\* <-e.Done() in Cancel
CancelDone(c) ==
  /\ call[c].pc = "wait"
  /\ call[c].op = "Cancel"
  /\ TimerDone(call[c].e)
  /\ call' = [call EXCEPT ![c].pc = "ret"]
  /\ UNCHANGED <<sut, done, anyAction, stack, rwmutex, evars, tvars>>

(***************************************************************************)
(* Goroutines calling one MultiExecutor concurrently.                      *)
(***************************************************************************)
Next ==
  \/ \E c \in DOMAIN call, h \in HueTasks, lightSet \in LightSets :
       CallStart(c, h, lightSet) /\ UNCHANGED obs
  \/ \E c \in DOMAIN call, h \in HueTasks, lightSet \in LightSets :
       CallMaybeStart(c, h, lightSet) /\ UNCHANGED obs
  \/ \E c \in DOMAIN call : LoopInterrupt(c) /\ UNCHANGED obs
  \/ LoopStart /\ UNCHANGED obs
  \/ \E i \in 1..MaxExecs : TaskReturn(i) /\ UNCHANGED obs
  \/ \E c \in DOMAIN call, taskId \in TaskIds :
       CallStop(c, taskId) /\ UNCHANGED obs
  \/ \E c \in DOMAIN call : StopDone(c) /\ UNCHANGED obs
  \/ \E c \in DOMAIN call : Return(c) /\ UNCHANGED obs

Spec == Init /\ [][Next]_vars

(***************************************************************************)
(* One goroutine calling a MultiExecutor or a MultiTimer, each call        *)
(* observed until it returns.                                              *)
(***************************************************************************)
NextSeq ==
  \/ \E c \in DOMAIN call, h \in HueTasks, lightSet \in LightSets :
       /\ sut = "MultiExecutor"
       /\ CallStart(c, h, lightSet)
       /\ Observe("Start", h, lightSet, Start(h, lightSet))
  \/ \E c \in DOMAIN call, h \in HueTasks, lightSet \in LightSets :
       /\ sut = "MultiExecutor"
       /\ CallMaybeStart(c, h, lightSet)
       /\ Observe("MaybeStart", h, lightSet,
                  MaybeStart(Tasks(tasks), h, lightSet))
  \/ \E c \in DOMAIN call : LoopInterrupt(c) /\ UNCHANGED obs
  \/ LoopStart /\ obs' = [obs EXCEPT !.ret = "exec", !.t = loop.t, !.e = nextExec]
  \/ \E i \in 1..MaxExecs : TaskReturn(i) /\ UNCHANGED obs
  \/ \E c \in DOMAIN call, taskId \in TaskIds :
       /\ sut = "MultiExecutor"
       /\ CallStop(c, taskId)
       /\ obs' = [NoObs EXCEPT !.op = "Stop", !.id = taskId]
  \/ \E c \in DOMAIN call : StopDone(c) /\ UNCHANGED obs
  \/ \E c \in DOMAIN call, h \in TimerHueTasks, lightSet \in TimerLightSets,
        startTime \in Times :
       /\ sut = "MultiTimer"
       /\ CallSchedule(c, h, lightSet, startTime)
       /\ obs' = [NoObs EXCEPT !.op = "Schedule", !.h = h,
                               !.lightSet = lightSet]
  \/ \E c \in DOMAIN call : TimerLoopInterrupt(c) /\ UNCHANGED obs
  \/ TimerLoopStart /\ UNCHANGED obs
  \/ \E c \in DOMAIN call : ScheduleAdd(c) /\ UNCHANGED obs
  \/ \E i \in 1..MaxTimers : TimerDo(i) /\ UNCHANGED obs
  \/ \E i \in 1..MaxTimers : TimerSleep(i) /\ UNCHANGED obs
  \/ \E i \in 1..MaxTimers : TimerBegin(i) /\ UNCHANGED obs
  \/ \E i \in 1..MaxTimers : TimerStoreRemove(i) /\ UNCHANGED obs
  \/ \E i \in 1..MaxTimers : TimerReturn(i) /\ UNCHANGED obs
  \/ Tick /\ UNCHANGED obs
  \/ \E c \in DOMAIN call, taskId \in TimerTaskIds :
       /\ sut = "MultiTimer"
       /\ CallCancel(c, taskId)
       /\ obs' = [NoObs EXCEPT !.op = "Cancel", !.id = taskId]
  \/ \E c \in DOMAIN call : CancelDone(c) /\ UNCHANGED obs
  \/ \E c \in DOMAIN call : Return(c) /\ obs' = NoObs

SpecSeq == InitSeq /\ [][NextSeq]_vars

(***************************************************************************)
(* A MultiTimer constructed over a store that holds records, then called   *)
(* by one goroutine while its timed tasks run and the clock advances.      *)
(***************************************************************************)
InitTimer ==
  /\ sut = "MultiTimer"
  /\ tasks = <<>>
  /\ nextExec = 1
  /\ loop = IdleLoop
  /\ obs = NoObs
  /\ scheduled = <<>>
  /\ nextTimer = 1
  /\ sloop = IdleTimerLoop
  /\ store \in StoredLists
  /\ now \in Times
  /\ begun = <<>>
  /\ recover = [all |-> store, todo |-> store, done |-> 0, at |-> now]
  /\ storeCalls = NoStoreCalls
  /\ stack = NoStack
  /\ rwmutex = Unlocked
  /\ anyAction = NoAction
  /\ done = NoDone
  /\ call = [c \in {"g1"} |-> [IdleCall EXCEPT !.pc = "new", !.op = "New"]]

NextTimer ==
  \/ \E c \in DOMAIN call : RecoverNext(c) /\ UNCHANGED obs
  \/ \E c \in DOMAIN call : NewDone(c) /\ UNCHANGED obs
  \/ \E c \in DOMAIN call, h \in TimerHueTasks, lightSet \in TimerLightSets,
        startTime \in Times :
       CallSchedule(c, h, lightSet, startTime) /\ UNCHANGED obs
  \/ \E c \in DOMAIN call : TimerLoopInterrupt(c) /\ UNCHANGED obs
  \/ TimerLoopStart /\ UNCHANGED obs
  \/ \E c \in DOMAIN call : ScheduleAdd(c) /\ UNCHANGED obs
  \/ \E c \in DOMAIN call, taskId \in TimerTaskIds :
       CallCancel(c, taskId) /\ UNCHANGED obs
  \/ \E c \in DOMAIN call : CancelDone(c) /\ UNCHANGED obs
  \/ \E i \in 1..Len(scheduled) : TimerDo(i) /\ UNCHANGED obs
  \/ \E i \in 1..Len(scheduled) : TimerSleep(i) /\ UNCHANGED obs
  \/ \E i \in 1..Len(scheduled) : TimerBegin(i) /\ UNCHANGED obs
  \/ \E i \in 1..Len(scheduled) : TimerStoreRemove(i) /\ UNCHANGED obs
  \/ \E i \in 1..Len(scheduled) : TimerReturn(i) /\ UNCHANGED obs
  \/ Tick /\ UNCHANGED obs
  \/ \E c \in DOMAIN call : Return(c) /\ UNCHANGED obs

SpecTimer == InitTimer /\ [][NextTimer]_vars

\* A MultiTimer constructed on an empty store, and one goroutine that calls
\* Schedule often enough for a timed entry to meet an earlier one.
InitDisplace ==
  /\ InitObjects
  /\ sut = "MultiTimer"
  /\ call = [c \in {"g1"} |-> IdleCall]

NextDisplace ==
  \/ \E c \in DOMAIN call, lightSet \in TimerLightSets, startTime \in Times :
       Schedule(CanScheduleOneMore, c, "long", lightSet, startTime) /\ UNCHANGED obs
  \/ \E c \in DOMAIN call : TimerLoopInterrupt(c) /\ UNCHANGED obs
  \/ TimerLoopStart /\ UNCHANGED obs
  \/ \E c \in DOMAIN call : ScheduleAdd(c) /\ UNCHANGED obs
  \/ \E i \in 1..Len(scheduled) : TimerDo(i) /\ UNCHANGED obs
  \/ \E i \in 1..Len(scheduled) : TimerSleep(i) /\ UNCHANGED obs
  \/ \E i \in 1..Len(scheduled) : TimerBegin(i) /\ UNCHANGED obs
  \/ \E i \in 1..Len(scheduled) : TimerStoreRemove(i) /\ UNCHANGED obs
  \/ \E i \in 1..Len(scheduled) : TimerReturn(i) /\ UNCHANGED obs
  \/ Tick /\ UNCHANGED obs
  \/ \E c \in DOMAIN call : Return(c) /\ UNCHANGED obs

SpecDisplace == InitDisplace /\ [][NextDisplace]_vars

(***************************************************************************)
(* Stack.  Base is the MultiExecutor of the variables tasks, loop and      *)
(* nextExec; of Extra the model keeps whether it is paused and lets its    *)
(* tasks write lights while it is not.  tasks.MultiExecutor.Pause is taken *)
(* from its documentation in utils.go: it ends every running task, waits   *)
(* for them to stop, and the executor starts no task until Resume.         *)
(***************************************************************************)

\* Stack.AllLights: the lights the Stack controls
AllLights == New(LightIds)

\* Stack.Push: s.first <- empty
CallPush(c) ==
  /\ call[c].pc = "idle"
  /\ call' = [call EXCEPT ![c] = [IdleCall EXCEPT !.pc = "first", !.op = "Push"]]
  /\ UNCHANGED <<sut, done, anyAction, stack, rwmutex, evars, tvars>>

\* Stack.Pop: s.third <- empty
CallPop(c) ==
  /\ call[c].pc = "idle"
  /\ call' = [call EXCEPT ![c] = [IdleCall EXCEPT !.pc = "third", !.op = "Pop"]]
  /\ UNCHANGED <<sut, done, anyAction, stack, rwmutex, evars, tvars>>

\* a loop that takes a Push wherever it stands
StackFirstAnywhere(c) ==
  /\ stack.pc # "none"
  /\ call[c].pc = "first"
  /\ call' = [call EXCEPT ![c].pc = "second"]
  /\ stack' = [stack EXCEPT !.pc = "basePause"]
  /\ UNCHANGED <<sut, done, anyAction, rwmutex, evars, tvars>>

\* Stack.loop: <-s.first, taken from a Push; Push goes on to <-s.second
StackFirst(c) ==
  /\ stack.pc = "first"
  /\ call[c].pc = "first"
  /\ call' = [call EXCEPT ![c].pc = "second"]
  /\ stack' = [stack EXCEPT !.pc = "basePause"]
  /\ UNCHANGED <<sut, done, anyAction, rwmutex, evars, tvars>>

\* s.Base.Pause(): the loop of Base takes the pause and ends every task
StackBasePause ==
  /\ stack.pc = "basePause"
  /\ loop.state = "idle"
  /\ LET all == ConflictsSlice(tasks, NilTask)
         conflicts == {all[i] : i \in 1..Len(all)}
     IN /\ tasks' = EndAll(tasks, conflicts)
        /\ loop' = [IdleLoop EXCEPT !.state = "pause", !.caller = "stack",
                                    !.op = "Pause", !.conflicts = conflicts]
  /\ stack' = [stack EXCEPT !.pc = "basePausing"]
  /\ UNCHANGED <<sut, done, anyAction, rwmutex, nextExec, call, tvars>>

\* a Pause that returns without waiting for the tasks to stop
StackBasePausedAtOnce ==
  /\ stack.pc = "basePausing"
  /\ loop.state = "pause"
  /\ loop' = IdleLoop
  /\ stack' = [stack EXCEPT !.pc = "snapshot", !.paused.Base = TRUE,
                            !.colors = LightColors(<<>>),
                            !.todo = IF IsAll(AllLights) THEN {} ELSE AllLights.ids]
  /\ UNCHANGED <<sut, done, anyAction, rwmutex, tasks, nextExec, call, tvars>>

\* s.Base.Pause() returns: every task of Base has stopped.  The loop goes
\* on, after the 500ms, to ops.Snapshot(s.context, s.AllLights)
StackBasePaused ==
  /\ stack.pc = "basePausing"
  /\ loop.state = "pause"
  /\ \A e \in loop.conflicts : Done(e)
  /\ loop' = IdleLoop
  /\ stack' = [stack EXCEPT !.pc = "snapshot", !.paused.Base = TRUE,
                            !.colors = LightColors(<<>>),
                            !.todo = IF IsAll(AllLights) THEN {} ELSE AllLights.ids]
  /\ UNCHANGED <<sut, done, anyAction, rwmutex, tasks, nextExec, call, tvars>>

\* ops.Snapshot: reader.Get(lightId) for the next light of the set; an
\* error makes Snapshot return nil
StackSnapshotGet(lightId, ok) ==
  /\ stack.pc = "snapshot"
  /\ lightId \in stack.todo
  /\ stack' = IF ok
               THEN [stack EXCEPT
                       !.todo = @ \ {lightId},
                       !.colors = LightColors(
                          [l \in DOMAIN stack.colors.of \cup {lightId} |->
                             IF l = lightId THEN stack.lights[l]
                             ELSE stack.colors.of[l]])]
               ELSE [stack EXCEPT !.todo = {}, !.colors = NilColors]
  /\ UNCHANGED <<sut, done, anyAction, rwmutex, evars, call, tvars>>

\* a loop that gives up the cycle when Snapshot returns an error
StackSnapshotDoneOrAbort ==
  /\ stack.pc = "snapshot"
  /\ stack.todo = {}
  /\ stack' = [stack EXCEPT !.pc = IF stack.colors.nil THEN "first"
                                   ELSE "extraResume"]
  /\ UNCHANGED <<sut, done, anyAction, rwmutex, evars, call, tvars>>

\* ops.Snapshot has returned; the loop logs the error if there is one
StackSnapshotDone ==
  /\ stack.pc = "snapshot"
  /\ stack.todo = {}
  /\ stack' = [stack EXCEPT !.pc = "extraResume"]
  /\ UNCHANGED <<sut, done, anyAction, rwmutex, evars, call, tvars>>

\* a loop that acknowledges the Push without resuming Extra
StackExtraResumeSkipped ==
  /\ stack.pc = "extraResume"
  /\ stack' = [stack EXCEPT !.pc = "second"]
  /\ UNCHANGED <<sut, done, anyAction, rwmutex, evars, call, tvars>>

\* s.Extra.Resume()
StackExtraResume ==
  /\ stack.pc = "extraResume"
  /\ stack' = [stack EXCEPT !.pc = "second", !.paused.Extra = FALSE]
  /\ UNCHANGED <<sut, done, anyAction, rwmutex, evars, call, tvars>>

\* s.second <- empty, taken by the Push that waits for it: Push returns
StackSecond(c) ==
  /\ stack.pc = "second"
  /\ call[c].pc = "second"
  /\ call' = [call EXCEPT ![c].pc = "ret"]
  /\ stack' = [stack EXCEPT !.pc = "third"]
  /\ UNCHANGED <<sut, done, anyAction, rwmutex, evars, tvars>>

\* a loop that takes a Pop wherever it stands
StackThirdAnywhere(c) ==
  /\ stack.pc # "none"
  /\ call[c].pc = "third"
  /\ call' = [call EXCEPT ![c].pc = "fourth"]
  /\ stack' = [stack EXCEPT !.pc = "extraPause"]
  /\ UNCHANGED <<sut, done, anyAction, rwmutex, evars, tvars>>

\* <-s.third, taken from a Pop; Pop goes on to <-s.fourth
StackThird(c) ==
  /\ stack.pc = "third"
  /\ call[c].pc = "third"
  /\ call' = [call EXCEPT ![c].pc = "fourth"]
  /\ stack' = [stack EXCEPT !.pc = "extraPause"]
  /\ UNCHANGED <<sut, done, anyAction, rwmutex, evars, tvars>>

\* s.Extra.Pause(), then if lightColors != nil, ops.Restore
StackExtraPause ==
  /\ stack.pc = "extraPause"
  /\ stack' = [stack EXCEPT
       !.paused.Extra = TRUE,
       !.pc = IF stack.colors.nil THEN "baseResume" ELSE "restore",
       !.todo = IF stack.colors.nil THEN {} ELSE DOMAIN stack.colors.of,
       !.attempted = {}]
  /\ UNCHANGED <<sut, done, anyAction, rwmutex, evars, call, tvars>>

\* ops.Restore: ctxt.Set(id, ...) for the next light of the map; an error
\* makes Restore return
StackRestoreSet(id, ok) ==
  /\ stack.pc = "restore"
  /\ id \in stack.todo
  /\ stack' = IF ok
               THEN [stack EXCEPT !.todo = @ \ {id},
                                  !.attempted = @ \cup {id},
                                  !.lights[id] = stack.colors.of[id]]
               ELSE [stack EXCEPT !.todo = {}, !.attempted = @ \cup {id}]
  /\ UNCHANGED <<sut, done, anyAction, rwmutex, evars, call, tvars>>

\* ops.Restore has returned; the loop logs the error if there is one
StackRestoreDone ==
  /\ stack.pc = "restore"
  /\ stack.todo = {}
  /\ stack' = [stack EXCEPT !.pc = "baseResume"]
  /\ UNCHANGED <<sut, done, anyAction, rwmutex, evars, call, tvars>>

\* s.Base.Resume()
StackBaseResume ==
  /\ stack.pc = "baseResume"
  /\ stack' = [stack EXCEPT !.pc = "fourth", !.paused.Base = FALSE]
  /\ UNCHANGED <<sut, done, anyAction, rwmutex, evars, call, tvars>>

\* s.fourth <- empty, taken by the Pop that waits for it: Pop returns and
\* the loop starts over
StackFourth(c) ==
  /\ stack.pc = "fourth"
  /\ call[c].pc = "fourth"
  /\ call' = [call EXCEPT ![c].pc = "ret"]
  /\ stack' = [stack EXCEPT !.pc = "first"]
  /\ UNCHANGED <<sut, done, anyAction, rwmutex, evars, tvars>>

\* a running task of Base sets one of its lights
BaseWrite(i, lightId) ==
  /\ i \in 1..Len(tasks)
  /\ tasks[i].t.Ls.all \/ lightId \in tasks[i].t.Ls.ids
  /\ stack.lights[lightId] # 0
  /\ stack' = [stack EXCEPT !.lights[lightId] = 0]
  /\ UNCHANGED <<sut, done, anyAction, rwmutex, evars, call, tvars>>

\* a task started on Extra, which runs only while Extra is not paused, sets
\* a light
ExtraWrite(lightId) ==
  /\ ~stack.paused.Extra
  /\ stack.lights[lightId] # 1
  /\ stack' = [stack EXCEPT !.lights[lightId] = 1]
  /\ UNCHANGED <<sut, done, anyAction, rwmutex, evars, call, tvars>>

\* NewStack(base, extra, ...) with two MultiExecutors as their constructor
\* leaves them, or with an extra that its owner has paused
InitStack ==
  /\ sut = "Stack"
  /\ tasks = <<>>
  /\ nextExec = 1
  /\ loop = IdleLoop
  /\ obs = NoObs
  /\ scheduled = <<>>
  /\ nextTimer = 1
  /\ sloop = IdleTimerLoop
  /\ store = <<>>
  /\ now = 0
  /\ begun = <<>>
  /\ recover = NoRecovery
  /\ storeCalls = NoStoreCalls
  /\ \E extraPaused \in BOOLEAN :
       stack = [NoStack EXCEPT !.pc = "first", !.paused.Extra = extraPaused]
  /\ rwmutex = Unlocked
  /\ anyAction = NoAction
  /\ done = NoDone
  /\ call = [c \in Goroutines |-> IdleCall]

NextStack ==
  \/ \E c \in DOMAIN call : CallPush(c) /\ UNCHANGED obs
  \/ \E c \in DOMAIN call : CallPop(c) /\ UNCHANGED obs
  \/ \E c \in DOMAIN call : StackFirst(c) /\ UNCHANGED obs
  \/ StackBasePause /\ UNCHANGED obs
  \/ StackBasePaused /\ UNCHANGED obs
  \/ \E lightId \in LightIds, ok \in BOOLEAN :
       StackSnapshotGet(lightId, ok) /\ UNCHANGED obs
  \/ StackSnapshotDone /\ UNCHANGED obs
  \/ StackExtraResume /\ UNCHANGED obs
  \/ \E c \in DOMAIN call : StackSecond(c) /\ UNCHANGED obs
  \/ \E c \in DOMAIN call : StackThird(c) /\ UNCHANGED obs
  \/ StackExtraPause /\ UNCHANGED obs
  \/ \E id \in LightIds, ok \in BOOLEAN :
       StackRestoreSet(id, ok) /\ UNCHANGED obs
  \/ StackRestoreDone /\ UNCHANGED obs
  \/ StackBaseResume /\ UNCHANGED obs
  \/ \E c \in DOMAIN call : StackFourth(c) /\ UNCHANGED obs
  \/ \E c \in DOMAIN call, lightSet \in {New({1}), New({MaxLight})} :
       CallStart(c, "long", lightSet) /\ UNCHANGED obs
  \/ \E c \in DOMAIN call : LoopInterrupt(c) /\ UNCHANGED obs
  \/ LoopStart /\ UNCHANGED obs
  \/ \E i \in 1..MaxExecs : TaskReturn(i) /\ UNCHANGED obs
  \/ \E i \in 1..MaxExecs, lightId \in LightIds :
       BaseWrite(i, lightId) /\ UNCHANGED obs
  \/ \E lightId \in LightIds : ExtraWrite(lightId) /\ UNCHANGED obs
  \/ \E c \in DOMAIN call : Return(c) /\ UNCHANGED obs

SpecStack == InitStack /\ [][NextStack]_vars

(***************************************************************************)
(* A TaskCollection whose methods goroutines call themselves, as its unit  *)
(* test does and as the loop goroutine, the task goroutines and the        *)
(* callers of Tasks and FindByTaskId do at the same time.  Every method    *)
(* takes c.rwmutex first and releases it as it returns (defer).            *)
(***************************************************************************)
\* the wrappers handed to the collection
CollTasks == {HueTaskWrapper("long", New({1})), HueTaskWrapper("static", New({1})),
              HueTaskWrapper("long", All)}

\* the method is called: it goes for the lock
CollCall(c, op, access, t, e, taskId) ==
  /\ call[c].pc = "idle"
  /\ call' = [call EXCEPT ![c] =
       [IdleCall EXCEPT !.pc = access, !.op = op, !.t = t, !.e = e,
                        !.local.id = taskId]]
  /\ UNCHANGED <<sut, done, anyAction, stack, rwmutex, tasks, loop, tvars>>

\* coll.Add(t, e) with a new wrapper and its new execution
CallAdd(c, t) ==
  /\ nextExec <= MaxExecs
  /\ nextExec' = nextExec + 1
  /\ CollCall(c, "Add", "Lock", t, nextExec, <<>>)

\* coll.Remove(t) for the wrapper made for execution e
CallRemove(c, e) ==
  CollCall(c, "Remove", "Lock", NoTask.t, e, <<>>) /\ UNCHANGED nextExec

CallConflicts(c, t) ==
  CollCall(c, "Conflicts", "RLock", t, Nil, <<>>) /\ UNCHANGED nextExec

CallTasks(c) ==
  CollCall(c, "Tasks", "RLock", NoTask.t, Nil, <<>>) /\ UNCHANGED nextExec

CallFindByTaskId(c, taskId) ==
  CollCall(c, "FindByTaskId", "RLock", NoTask.t, Nil, taskId) /\ UNCHANGED nextExec

\* c.rwmutex.Lock()
Lock(c) ==
  /\ call[c].pc = "Lock"
  /\ rwmutex.w = "none" /\ rwmutex.r = {}
  /\ rwmutex' = [rwmutex EXCEPT !.w = c]
  /\ call' = [call EXCEPT ![c].pc = "locked"]
  /\ UNCHANGED <<sut, done, anyAction, stack, evars, tvars>>

\* an RLock that does not wait for the writer
RLockAtOnce(c) ==
  /\ call[c].pc = "RLock"
  /\ rwmutex' = [rwmutex EXCEPT !.r = @ \cup {c}]
  /\ call' = [call EXCEPT ![c].pc = "locked"]
  /\ UNCHANGED <<sut, done, anyAction, stack, evars, tvars>>

\* c.rwmutex.RLock()
RLock(c) ==
  /\ call[c].pc = "RLock"
  /\ rwmutex.w = "none"
  /\ rwmutex' = [rwmutex EXCEPT !.r = @ \cup {c}]
  /\ call' = [call EXCEPT ![c].pc = "locked"]
  /\ UNCHANGED <<sut, done, anyAction, stack, evars, tvars>>

\* the deferred Unlock or RUnlock of goroutine c
Unlock(c) ==
  rwmutex' = [w |-> IF rwmutex.w = c THEN "none" ELSE rwmutex.w,
              r |-> rwmutex.r \ {c}]

\* Add: the append, and the return
AddAppend(c) ==
  /\ call[c].pc = "locked" /\ call[c].op = "Add"
  /\ tasks' = Add(tasks, call[c].t, call[c].e)
  /\ Unlock(c)
  /\ call' = [call EXCEPT ![c].pc = "ret"]
  /\ UNCHANGED <<sut, done, anyAction, stack, nextExec, loop, tvars>>

\* Remove: the loop that looks for the task
RemoveFind(c) ==
  /\ call[c].pc = "locked" /\ call[c].op = "Remove"
  /\ call' = [call EXCEPT ![c].pc = "found",
                          ![c].local.idx = RemoveIdx(tasks, call[c].e)]
  /\ UNCHANGED <<sut, done, anyAction, stack, rwmutex, evars, tvars>>

\* Remove: the deletion at idx, and the return
RemoveCopy(c) ==
  /\ call[c].pc = "found" /\ call[c].op = "Remove"
  /\ tasks' = RemoveAt(tasks, IF call[c].local.idx <= Len(tasks)
                              THEN call[c].local.idx ELSE -1)
  /\ Unlock(c)
  /\ call' = [call EXCEPT ![c].pc = "ret"]
  /\ UNCHANGED <<sut, done, anyAction, stack, nextExec, loop, tvars>>

\* Conflicts: the slice of the conflicting executions, and the return
ConflictsReturn(c) ==
  /\ call[c].pc = "locked" /\ call[c].op = "Conflicts"
  /\ Unlock(c)
  /\ call' = [call EXCEPT ![c].pc = "ret",
                          ![c].local.result = ConflictsSlice(tasks, call[c].t)]
  /\ UNCHANGED <<sut, done, anyAction, stack, evars, tvars>>

\* Tasks: reflect.MakeSlice(..., len(c.tasks), len(c.tasks))
TasksMake(c) ==
  /\ call[c].pc = "locked" /\ call[c].op = "Tasks"
  /\ call' = [call EXCEPT ![c].pc = "copy", ![c].local.n = Len(tasks)]
  /\ UNCHANGED <<sut, done, anyAction, stack, rwmutex, evars, tvars>>

\* Tasks: sliceValue.Index(i).Set(c.tasks[i].t), for the next i.  (An index
\* past the end of c.tasks, which only a collection changed meanwhile has,
\* reads what the array holds there: shown as the nil task.)
TasksCopy(c) ==
  /\ call[c].pc = "copy" /\ call[c].op = "Tasks"
  /\ Len(call[c].local.result) < call[c].local.n
  /\ LET i == Len(call[c].local.result) + 1
     IN call' = [call EXCEPT ![c].local.result =
                   Append(@, IF i <= Len(tasks) THEN tasks[i].t ELSE NilTask)]
  /\ UNCHANGED <<sut, done, anyAction, stack, rwmutex, evars, tvars>>

\* Tasks: the loop is over, and the return
TasksReturn(c) ==
  /\ call[c].pc = "copy" /\ call[c].op = "Tasks"
  /\ Len(call[c].local.result) = call[c].local.n
  /\ Unlock(c)
  /\ call' = [call EXCEPT ![c].pc = "ret"]
  /\ UNCHANGED <<sut, done, anyAction, stack, evars, tvars>>

\* FindByTaskId: the search, and the return
FindReturn(c) ==
  /\ call[c].pc = "locked" /\ call[c].op = "FindByTaskId"
  /\ Unlock(c)
  /\ call' = [call EXCEPT ![c].pc = "ret",
                          ![c].e = FindByTaskId(tasks, call[c].local.id)]
  /\ UNCHANGED <<sut, done, anyAction, stack, evars, tvars>>

\* the caller has the result and goes on
CollReturn(c) ==
  /\ call[c].pc = "ret"
  /\ call[c].op \in {"Add", "Remove", "Conflicts", "Tasks", "FindByTaskId"}
  /\ call' = [call EXCEPT ![c] = IdleCall]
  /\ UNCHANGED <<sut, done, anyAction, stack, rwmutex, evars, tvars>>

InitColl ==
  /\ sut = "TaskCollection"
  /\ call = [c \in Goroutines |-> IdleCall]
  /\ InitObjects

NextColl ==
  \/ \E c \in DOMAIN call, t \in CollTasks : CallAdd(c, t) /\ UNCHANGED obs
  \/ \E c \in DOMAIN call, e \in 1..MaxExecs : CallRemove(c, e) /\ UNCHANGED obs
  \/ \E c \in DOMAIN call, t \in CollTasks \cup {NilTask} :
       CallConflicts(c, t) /\ UNCHANGED obs
  \/ \E c \in DOMAIN call : CallTasks(c) /\ UNCHANGED obs
  \/ \E c \in DOMAIN call, t \in CollTasks :
       CallFindByTaskId(c, TaskId(t)) /\ UNCHANGED obs
  \/ \E c \in DOMAIN call : Lock(c) /\ UNCHANGED obs
  \/ \E c \in DOMAIN call : RLock(c) /\ UNCHANGED obs
  \/ \E c \in DOMAIN call : AddAppend(c) /\ UNCHANGED obs
  \/ \E c \in DOMAIN call : RemoveFind(c) /\ UNCHANGED obs
  \/ \E c \in DOMAIN call : RemoveCopy(c) /\ UNCHANGED obs
  \/ \E c \in DOMAIN call : ConflictsReturn(c) /\ UNCHANGED obs
  \/ \E c \in DOMAIN call : TasksMake(c) /\ UNCHANGED obs
  \/ \E c \in DOMAIN call : TasksCopy(c) /\ UNCHANGED obs
  \/ \E c \in DOMAIN call : TasksReturn(c) /\ UNCHANGED obs
  \/ \E c \in DOMAIN call : FindReturn(c) /\ UNCHANGED obs
  \/ \E c \in DOMAIN call : CollReturn(c) /\ UNCHANGED obs

SpecColl == InitColl /\ [][NextColl]_vars

(***************************************************************************)
(* Package lights called on its own, as its unit tests do: String, Parse,  *)
(* InvString and Subtract applied to light sets and strings, the last call *)
(* and its result being observed.                                          *)
(***************************************************************************)
\* the light sets New builds from ids, 0 among them, and All
NewSets == {All} \cup {New(ids) : ids \in SUBSET (0..MaxLight)}

\* the strings handed to Parse and InvString: what String gives, and some
\* that are no light set
Strings ==
  {String(l) : l \in NewSets} \cup {<<"">>, <<"x">>, <<"1", "">>, <<"All", "1">>}

ApplyString(l) ==
  /\ obs' = [NoObs EXCEPT !.op = "String", !.lightSet = l, !.str = String(l)]
  /\ UNCHANGED <<sut, done, anyAction, stack, rwmutex, evars, call, tvars>>

ApplyParse(s) ==
  /\ obs' = [NoObs EXCEPT !.op = "Parse", !.str = s,
                          !.ret = IF Parse(s).err THEN "err" ELSE "ok",
                          !.result = Parse(s).result]
  /\ UNCHANGED <<sut, done, anyAction, stack, rwmutex, evars, call, tvars>>

ApplyInvString(s) ==
  /\ obs' = [NoObs EXCEPT !.op = "InvString", !.str = s,
                          !.ret = IF InvString(s).err THEN "err" ELSE "ok",
                          !.result = InvString(s).result]
  /\ UNCHANGED <<sut, done, anyAction, stack, rwmutex, evars, call, tvars>>

\* l.Subtract(other): a panic, or the set returned
ApplySubtract(l, other) ==
  /\ obs' = [NoObs EXCEPT !.op = "Subtract", !.lightSet = l, !.other = other,
                          !.ret = IF SubtractPanics(l, other) THEN "panic" ELSE "ok",
                          !.result = IF SubtractPanics(l, other) THEN None
                                     ELSE Subtract(l, other)]
  /\ UNCHANGED <<sut, done, anyAction, stack, rwmutex, evars, call, tvars>>

InitLights ==
  /\ sut = "lights"
  /\ call = [c \in {"g1"} |-> IdleCall]
  /\ InitObjects

NextLights ==
  \/ \E l \in NewSets : ApplyString(l)
  \/ \E s \in Strings : ApplyParse(s)
  \/ \E s \in Strings : ApplyInvString(s)
  \/ \E l \in NewSets, other \in NewSets : ApplySubtract(l, other)

SpecLights == InitLights /\ [][NextLights]_vars

(***************************************************************************)
(* MaybeStart of a hue task whose HueAction is any that obeys the axioms   *)
(* of UsedLights, on a MultiExecutor with or without a running task.       *)
(***************************************************************************)
\* what the collection of the executor may hold: nothing, or one task
\* running on some lights
RunningTasks ==
  {<<>>} \cup {Add(<<>>, HueTaskWrapper("long", l), 1) : l \in LightSets \ {None}}

\* m.MaybeStart(h, lightSet) up to the return of nil or the call of m.Start
ApplyMaybeStart(lightSet) ==
  /\ LET out == MaybeStart(Tasks(tasks), "any", lightSet)
     IN obs' = [NoObs EXCEPT !.op = "MaybeStart", !.h = "any",
                             !.lightSet = lightSet, !.registered = Tasks(tasks),
                             !.ret = IF out.panic THEN "panic"
                                     ELSE IF out.run THEN "pending" ELSE "nil",
                             !.t = out.t]
  /\ UNCHANGED <<sut, done, anyAction, stack, rwmutex, evars, call, tvars>>

InitAction ==
  /\ sut = "MultiExecutor"
  /\ anyAction \in UsedLightsFunctions
  /\ done = NoDone
  /\ tasks \in RunningTasks
  /\ nextExec = Len(tasks) + 1
  /\ loop = IdleLoop
  /\ obs = NoObs
  /\ scheduled = <<>>
  /\ nextTimer = 1
  /\ sloop = IdleTimerLoop
  /\ store = <<>>
  /\ now = 0
  /\ begun = <<>>
  /\ recover = NoRecovery
  /\ storeCalls = NoStoreCalls
  /\ stack = NoStack
  /\ rwmutex = Unlocked
  /\ call = [c \in {"g1"} |-> IdleCall]

NextAction == \E lightSet \in LightSets : ApplyMaybeStart(lightSet)

SpecAction == InitAction /\ [][NextAction]_vars

(***************************************************************************)
(* Properties.  A light set stands for the lights it names; All stands for *)
(* every light, the numbered ones and one more that no finite set names.   *)
(***************************************************************************)
Lights(l) == IF l.all THEN LightIds \cup {MaxLight + 1} ELSE l.ids

Overlap(l, other) == Lights(l) \cap Lights(other) # {}

\* the single calling goroutine of SpecSeq
Caller == CHOOSE c \in DOMAIN call : TRUE

\* the step in which the caller makes the call op
Calls(op) == call[Caller].pc = "idle" /\ obs'.op = op

\* the call returned nil without having handed anything to the loop
ReturnsNilAtOnce == call'[Caller].pc = "ret" /\ call'[Caller].e = Nil

\* C1: at every moment no two tasks registered in the MultiExecutor's
\* collection hold overlapping light sets, whatever Start, MaybeStart, Stop
\* and task completions came before.
C1_NoOverlappingTasks ==
  \A i, j \in 1..Len(tasks) :
    i # j => ~Overlap(tasks[i].t.Ls, tasks[j].t.Ls)

\* two tasks are registered at the same time, the second one started while
\* the first was running
C1_Witness ==
  /\ Len(tasks) = 2
  /\ \A i \in 1..2 : Lights(tasks[i].t.Ls) # {}

\* C2: when MaybeStart returns an execution, the light set its task is
\* registered with overlaps none of the light sets that were registered when
\* MaybeStart was called.
C2_MaybeStartAvoidsRegistered ==
  (call[Caller].pc = "ret" /\ obs.op = "MaybeStart" /\ obs.ret = "exec") =>
    \A i \in 1..Len(obs.registered) : ~Overlap(obs.t.Ls, obs.registered[i].Ls)

\* MaybeStart returned an execution for fewer lights than the task needs,
\* the others being in use
C2_Witness ==
  /\ call[Caller].pc = "ret" /\ obs.op = "MaybeStart" /\ obs.ret = "exec"
  /\ Len(obs.registered) > 0
  /\ obs.t.Ls # UsedLights(obs.h, obs.lightSet)

\* C3: MaybeStart never preempts: whatever other calls run concurrently, the
\* task a MaybeStart call hands to the executor conflicts with no registered
\* task, so no execution is told to end on its behalf.
C3_MaybeStartNeverPreempts ==
  (loop.state = "interrupt" /\ loop.op = "MaybeStart") => loop.conflicts = {}

\* C4: a Start(h, lightSet) that returns an execution has told to end every
\* registered execution whose light set overlaps UsedLights(lightSet), and
\* none whose light set does not.
C4_StartSignalsExactlyConflicts ==
  [][(loop.state = "idle" /\ loop'.state = "interrupt" /\ obs.op = "Start") =>
       /\ Len(tasks') = Len(tasks)
       /\ \A i \in 1..Len(tasks) :
            /\ tasks'[i].e = tasks[i].e
            /\ tasks'[i].ended =
                 (tasks[i].ended \/
                  Overlap(tasks[i].t.Ls, UsedLights(obs.h, obs.lightSet)))]_vars

\* a Start has told the conflicting executions to end, and only those
C4_Witness ==
  /\ obs.op = "Start" /\ loop.state = "interrupt" /\ loop.conflicts # {}
  /\ \A i \in 1..Len(tasks) : tasks[i].ended = (tasks[i].e \in loop.conflicts)

\* C5: within one Start the conflicting executions are told to end in a step
\* that comes before the step that inserts the new (task, execution) pair
\* in the collection.
C5_SignalBeforeInsert ==
  [][/\ (loop.state = "idle" /\ loop'.state = "interrupt") =>
          /\ Len(tasks') = Len(tasks)
          /\ \A i \in 1..Len(tasks) :
               Overlap(tasks[i].t.Ls, loop'.t.Ls) => tasks'[i].ended
     /\ Len(tasks') > Len(tasks) =>
          /\ loop.state = "interrupt" /\ loop'.state = "idle"
          /\ tasks'[Len(tasks')].t = loop.t
          /\ call'[loop.caller].e = tasks'[Len(tasks')].e]_vars

\* a Start has told a conflicting execution to end and has not yet inserted
\* its own task
C5_Witness ==
  /\ loop.state = "interrupt"
  /\ \E i \in 1..Len(tasks) : tasks[i].e \in loop.conflicts /\ tasks[i].ended
  /\ \A i \in 1..Len(tasks) : tasks[i].t # loop.t \/ tasks[i].ended

\* C6 as the specification states it: Start does not wait for the executions
\* it told to end; once it has told them, it can register its task.
C6_StartDoesNotWait ==
  loop.state = "interrupt" => ENABLED LoopStart

\* C6: Start inserts its task in the collection only when every execution it
\* told to end is done and out of the collection, so the old and the new
\* task are never registered on the same light together.
C6_StartWaitsForConflicts ==
  [][Len(tasks') > Len(tasks) =>
       /\ \A i \in 1..Len(tasks) : tasks[i].e \notin loop.conflicts
       /\ \A i \in 1..Len(tasks) :
            ~Overlap(tasks[i].t.Ls, tasks'[Len(tasks')].t.Ls)]_vars

\* a Start is waiting: an execution it told to end is still registered
C6_Witness ==
  /\ loop.state = "interrupt"
  /\ \E i \in 1..Len(tasks) : tasks[i].e \in loop.conflicts
  /\ call[loop.caller].pc = "recv"

\* C7: Start, MaybeStart and Schedule with a task that uses none of the
\* requested lights return no execution and change nothing: the collections
\* of running and of scheduled tasks stay as they are, no execution is told
\* to end, nothing is handed to an executor and the store gets no record.
C7_NoLightsNoEffect ==
  [][((Calls("Start") \/ Calls("MaybeStart") \/ Calls("Schedule")) /\
      Lights(UsedLights(obs'.h, obs'.lightSet)) = {}) =>
       /\ ReturnsNilAtOnce
       /\ UNCHANGED <<tasks, nextExec, loop, scheduled, nextTimer, sloop,
                      store, begun>>]_vars

\* Schedule was called for all lights with a task that uses none, while a
\* timed task was scheduled and stored
C7_Witness ==
  /\ call[Caller].pc = "ret" /\ obs.op = "Schedule"
  /\ obs.lightSet = All /\ Lights(UsedLights(obs.h, obs.lightSet)) = {}
  /\ Len(scheduled) = 1 /\ Len(store) = 1

\* C8: with no task registered, MaybeStart(h, lightSet) does what
\* Start(h, lightSet) does: it returns an execution exactly when Start does,
\* registered with the light set Start registers, All included.
C8_MaybeStartOnEmptyIsStart ==
  (call[Caller].pc = "ret" /\ obs.op = "MaybeStart" /\ Len(obs.registered) = 0) =>
    /\ (obs.ret = "exec") = Start(obs.h, obs.lightSet).run
    /\ (obs.ret = "nil") = ~Start(obs.h, obs.lightSet).run
    /\ obs.ret = "exec" =>
         /\ obs.t = Start(obs.h, obs.lightSet).t
         /\ obs.t.Ls = UsedLights(obs.h, obs.lightSet)
         /\ obs.e = call[Caller].e /\ obs.e # Nil

\* MaybeStart on an empty collection started a task that needs all lights
C8_Witness ==
  /\ call[Caller].pc = "ret" /\ obs.op = "MaybeStart"
  /\ Len(obs.registered) = 0 /\ obs.ret = "exec" /\ obs.t.Ls = All

\* C9: with at least one task registered, MaybeStart returns no execution
\* and leaves the collection as it is whenever the task needs all lights or
\* a registered task holds all lights.
C9_MaybeStartRefusesAll ==
  [][(/\ Calls("MaybeStart")
      /\ Len(tasks) > 0
      /\ \/ UsedLights(obs'.h, obs'.lightSet).all
         \/ \E i \in 1..Len(tasks) : tasks[i].t.Ls.all) =>
       /\ ReturnsNilAtOnce
       /\ UNCHANGED <<tasks, nextExec, loop>>]_vars

\* MaybeStart refused a task that needs some lights because a registered
\* task holds all lights
C9_Witness ==
  /\ call[Caller].pc = "ret" /\ obs.op = "MaybeStart" /\ obs.ret = "nil"
  /\ \E i \in 1..Len(obs.registered) : obs.registered[i].Ls.all
  /\ ~UsedLights(obs.h, obs.lightSet).all
  /\ Lights(UsedLights(obs.h, obs.lightSet)) # {}

\* the lights of the tasks in a list of wrappers
InUse(registered) == UNION {Lights(registered[i].Ls) : i \in 1..Len(registered)}

\* C10: with a non-empty collection of finite light sets and a task that
\* needs a finite light set, MaybeStart accepts exactly when
\* available = needed minus the lights in use is not empty and
\* willUse = UsedLights(available) is not empty and within available; it
\* then registers the task with willUse, and otherwise registers nothing.
C10_MaybeStartAcceptance ==
  (/\ call[Caller].pc = "ret" /\ obs.op = "MaybeStart"
   /\ Len(obs.registered) > 0
   /\ \A i \in 1..Len(obs.registered) : ~obs.registered[i].Ls.all
   /\ ~UsedLights(obs.h, obs.lightSet).all) =>
    LET needed == Lights(UsedLights(obs.h, obs.lightSet))
        available == needed \ InUse(obs.registered)
        willUse == UsedLights(obs.h, New(available))
        accepts == /\ available # {}
                   /\ Lights(willUse) # {}
                   /\ Lights(willUse) \subseteq available
    IN /\ (obs.ret = "exec") = accepts
       /\ (obs.ret = "nil") = ~accepts
       /\ obs.ret = "exec" =>
            /\ ~obs.t.Ls.all /\ obs.t.Ls.ids = Lights(willUse)
            /\ obs.t.H = obs.h /\ obs.e = call[Caller].e /\ obs.e # Nil
       /\ obs.ret = "nil" => obs.e = Nil /\ call[Caller].e = Nil

\* MaybeStart ran a task whose action adds a light of its own on the part
\* of its lights that was free
C10_Witness ==
  /\ call[Caller].pc = "ret" /\ obs.op = "MaybeStart" /\ obs.ret = "exec"
  /\ Len(obs.registered) > 0 /\ obs.h = "long10"
  /\ obs.t.Ls # UsedLights(obs.h, obs.lightSet)

\* C11: two bound tasks conflict exactly when their light sets overlap;
\* overlap is symmetric, All overlaps every non-empty set and None overlaps
\* nothing.  So a Start on lights disjoint from every registered light set
\* finds no conflict, tells nothing to end, and its task joins the others.
C11_ConflictIffOverlap ==
  [][/\ (loop.state = "idle" /\ loop'.state = "interrupt") =>
          /\ \A a, b \in LightSets :
               /\ ConflictsWith(HueTaskWrapper("long", a),
                                HueTaskWrapper("static", b)) = Overlap(a, b)
               /\ OverlapsWith(a, b) = OverlapsWith(b, a)
               /\ OverlapsWith(All, a) = (Lights(a) # {})
               /\ ~OverlapsWith(None, a)
          /\ loop'.conflicts =
               {tasks[i].e : i \in {k \in 1..Len(tasks) :
                                      Overlap(tasks[k].t.Ls, loop'.t.Ls)}}
          /\ loop'.conflicts = {} => tasks' = tasks
     /\ (Len(tasks') > Len(tasks) /\ loop.conflicts = {}) =>
          /\ SubSeq(tasks', 1, Len(tasks)) = tasks
          /\ tasks'[Len(tasks')].t = loop.t]_vars

\* a task was started on lights disjoint from those of a running task and
\* both are registered, neither told to end
C11_Witness ==
  /\ Len(tasks) = 2 /\ loop.state = "idle"
  /\ ~tasks[1].ended /\ ~tasks[2].ended
  /\ Lights(tasks[1].t.Ls) \cap Lights(tasks[2].t.Ls) = {}

\* C12: two timed tasks conflict exactly when their light sets overlap and
\* their start times fall in the same Unix second; over the same lights, start
\* times one second apart never conflict, and equal schedule ids with a
\* non-empty light set always conflict.  The scheduler of the MultiTimer
\* finds exactly these conflicts.
C12_TimedConflictIffOverlapAndSameSecond ==
  [][(sloop.state = "idle" /\ sloop'.state = "interrupt") =>
       /\ \A a, b \in TimerLightSets, s \in Times, d \in {0, 1, 2},
             h \in TimerHueTasks :
            LET u == s + d
                t == TimerTaskWrapper("long", a, s)
                o == TimerTaskWrapper(h, b, u)
            IN /\ TimerConflictsWith(t, o) =
                    (Overlap(a, b) /\ s \div 2 = u \div 2)
               /\ (a = b /\ u = s + 2) => ~TimerConflictsWith(t, o)
               /\ (TimerTaskId(t) = TimerTaskId(o) /\ Lights(a) # {}) =>
                    TimerConflictsWith(t, o)
       /\ sloop'.conflicts =
            {scheduled[i].e : i \in {k \in 1..Len(scheduled) :
               /\ Overlap(scheduled[k].t.Ls, sloop'.t.Ls)
               /\ scheduled[k].t.StartTime \div 2 = sloop'.t.StartTime \div 2}}]_vars

\* the scheduler has looked for the conflicts of a timed task that Schedule
\* handed to it
C12_Witness ==
  /\ sloop.state = "interrupt"
  /\ call[sloop.caller].op = "Schedule"
  /\ Lights(sloop.t.Ls) # {}

\* C13: Stop(taskId) for a registered id tells that task's execution to end
\* and returns only when the execution is done and out of the collection.
C13_StopWaitsForDone ==
  \A c \in DOMAIN call :
    (call[c].op = "Stop" /\ call[c].e # Nil) =>
      /\ call[c].pc \in {"wait", "ret"}
      /\ \A i \in 1..Len(tasks) : tasks[i].e = call[c].e => tasks[i].ended
      /\ call[c].pc = "ret" => \A i \in 1..Len(tasks) : tasks[i].e # call[c].e

\* Stop found its task and is waiting for the execution it told to end
C13_Witness ==
  \E c \in DOMAIN call :
    /\ call[c].op = "Stop" /\ call[c].pc = "wait"
    /\ \E i \in 1..Len(tasks) : tasks[i].e = call[c].e /\ tasks[i].ended

\* C14: Stop and Cancel with an id that no registered task has (it never
\* existed, or its task has finished) do nothing, every time they are called:
\* the collections stay as they are, no execution is told to end, the store
\* is not called and nothing is handed to the executor.
C14_UnknownIdNoEffect ==
  [][(\/ /\ Calls("Stop")
         /\ \A i \in 1..Len(tasks) : TaskId(tasks[i].t) # obs'.id
      \/ /\ Calls("Cancel")
         /\ \A i \in 1..Len(scheduled) : TimerTaskId(scheduled[i].t) # obs'.id) =>
       /\ ReturnsNilAtOnce
       /\ UNCHANGED <<tasks, nextExec, loop, scheduled, nextTimer, sloop,
                      store, storeCalls, begun>>]_vars

\* Cancel was called, and has returned, with the id of a timed task that
\* had fired and finished
C14_Witness ==
  /\ call[Caller].pc = "ret" /\ obs.op = "Cancel" /\ call[Caller].e = Nil
  /\ scheduled = <<>> /\ nextTimer > 1 /\ Len(begun) > 0
  /\ obs.id = TimerTaskId(TimerTaskWrapper(begun[1].H, begun[1].Ls, now))

\* the timed entries in the collection, and the entry of scheduled' that
\* has the execution of the entry x
TimerEntries == {scheduled[i] : i \in 1..Len(scheduled)}

Stays(x) == \E i \in 1..Len(scheduled') : scheduled'[i].e = x.e

Next_(x) == CHOOSE y \in {scheduled'[i] : i \in 1..Len(scheduled')} : y.e = x.e

Moves(x, from, to) == x.pc = from /\ Stays(x) /\ Next_(x).pc = to

\* C15: a pending timed entry that was not told to end leaves its sleep only
\* when the clock has reached its start time, and then its task is handed to
\* the executor, once, with the entry's task and light set; after that its
\* store record is removed, and only then does it leave Scheduled().
C15_FiresOnceThenRemoved ==
  [][/\ \A x \in TimerEntries :
          /\ (x.pc = "sleep" /\ ~x.ended /\ Stays(x) /\ Next_(x).pc # "sleep") =>
               now >= x.t.StartTime /\ Next_(x).pc = "begin"
          /\ (x.pc = "begin" /\ Stays(x) /\ Next_(x).pc # "begin") =>
               /\ Next_(x).pc = "remove"
               /\ begun' = Append(begun, [H |-> x.t.H, Ls |-> x.t.Ls])
          /\ (x.pc = "remove" /\ Stays(x) /\ Next_(x).pc # "remove") =>
               /\ Next_(x).pc = "exit"
               /\ \A k \in 1..Len(store') : store'[k].Id # TimerTaskId(x.t)
          /\ (x.pc \in {"remove", "exit"} /\ Stays(x)) =>
               Next_(x).pc \in {"remove", "exit"}
          /\ Stays(x) \/ x.pc = "exit"
     /\ begun' # begun =>
          /\ Len(begun') = Len(begun) + 1
          /\ Cardinality({x \in TimerEntries : Moves(x, "begin", "remove")}) = 1]_vars

\* an entry that was not told to end has slept until its start time, its
\* task was handed to the executor and its record is out of the store
C15_Witness ==
  \E x \in TimerEntries :
    /\ x.pc = "exit" /\ ~x.ended /\ now >= x.t.StartTime
    /\ begun = <<[H |-> x.t.H, Ls |-> x.t.Ls]>>
    /\ \A k \in 1..Len(store) : store[k].Id # TimerTaskId(x.t)

\* the timed executions that have passed their call of store.Remove
PastRemove(coll, started) ==
  started - Cardinality({i \in 1..Len(coll) : coll[i].pc # "exit"})

\* C16: every timed execution calls store.Remove with its own schedule id
\* exactly once before it completes, whether it fired, was told to end
\* before its start time, or was started with its start time already past.
C16_RemovesOwnRecordOnce ==
  [][/\ storeCalls.remove = PastRemove(scheduled, nextTimer - 1)
     /\ storeCalls'.remove = PastRemove(scheduled', nextTimer' - 1)
     /\ \A x \in TimerEntries : Stays(x) \/ x.pc = "exit"
     /\ storeCalls'.remove # storeCalls.remove =>
          \E x \in TimerEntries :
            /\ Moves(x, "remove", "exit")
            /\ storeCalls'.remove = storeCalls.remove + 1
            /\ store' = SelectSeq(store, LAMBDA r : r.Id # TimerTaskId(x.t))
            /\ \A y \in TimerEntries \ {x} : Stays(y) /\ Next_(y) = y]_vars

\* an entry that was told to end in its sleep has called store.Remove and
\* nothing was handed to the executor
C16_Witness ==
  \E x \in TimerEntries :
    /\ x.pc = "exit" /\ x.ended /\ x.t.StartTime > now
    /\ begun = <<>> /\ storeCalls.remove = 1
    /\ \A k \in 1..Len(store) : store[k].Id # TimerTaskId(x.t)

\* C17 as stated: a timed entry whose start time is not after the clock when
\* its execution begins does not go on to store.Remove without its task
\* being handed to the executor.
C17_PastEntryFiresAtOnce ==
  [][\A x \in TimerEntries :
       (x.pc = "do" /\ x.t.StartTime <= now /\ Stays(x) /\ Next_(x).pc # "do") =>
         Next_(x).pc \in {"sleep", "begin"}]_vars

\* C17: a timed entry whose start time is not after the clock when its
\* execution begins is registered, but it never sleeps and its task is never
\* handed to the executor: it goes straight to store.Remove and then leaves
\* Scheduled().
C17_PastEntryNeverFires ==
  [][/\ \A x \in TimerEntries :
          /\ (x.pc = "do" /\ x.t.StartTime <= now /\ Stays(x) /\ Next_(x).pc # "do") =>
               /\ Next_(x).pc = "remove"
               /\ begun' = begun
          /\ (x.pc = "do" /\ x.t.StartTime > now /\ Stays(x) /\ Next_(x).pc # "do") =>
               Next_(x).pc = "sleep"
          /\ (x.pc \in {"remove", "exit"} /\ Stays(x)) =>
               Next_(x).pc \in {"remove", "exit"}
          /\ Stays(x) \/ x.pc = "exit"
     /\ begun' # begun => \E x \in TimerEntries : Moves(x, "begin", "remove")
     /\ \A i \in 1..Len(scheduled') :
          TimerDone(scheduled'[i].e) => scheduled'[i].pc = "do"]_vars

\* Schedule on an empty store registered an entry whose start time is not
\* after the clock; it was not told to end, it is at store.Remove and nothing
\* was handed to the executor
C17_Witness ==
  \E x \in TimerEntries :
    /\ x.pc = "remove" /\ ~x.ended /\ x.t.StartTime <= now
    /\ recover.done = 0 /\ begun = <<>>

\* the entries the constructor registered from the store whose start time
\* was before the clock at construction
RecoveredPast(x) == x.e <= recover.done /\ x.t.StartTime < recover.at

\* C18: an entry recovered from the store whose start time is before the
\* clock at construction never sleeps and is never handed to the executor:
\* its execution goes to store.Remove, which deletes its record, and then it
\* leaves Scheduled().
C18_RecoveredPastEntryDropped ==
  [][/\ \A x \in TimerEntries : RecoveredPast(x) =>
          /\ x.pc \in {"do", "remove", "exit"}
          /\ Stays(x) => Next_(x).pc \in {"do", "remove", "exit"}
          /\ (Stays(x) /\ Next_(x).pc # x.pc) =>
               \/ Moves(x, "do", "remove") /\ store' = store
               \/ /\ Moves(x, "remove", "exit")
                  /\ \A k \in 1..Len(store') : store'[k].Id # TimerTaskId(x.t)
          /\ Stays(x) \/ x.pc = "exit"
     /\ begun' # begun =>
          \E x \in TimerEntries :
            /\ ~RecoveredPast(x)
            /\ Moves(x, "begin", "remove")
            /\ begun' = Append(begun, [H |-> x.t.H, Ls |-> x.t.Ls])]_vars

\* a recovered entry with a start time before the clock at construction has
\* had its record removed from the store; nothing was handed to the executor
C18_Witness ==
  \E x \in TimerEntries :
    /\ RecoveredPast(x) /\ x.pc = "exit" /\ ~x.ended
    /\ Len(recover.all) = 1 /\ store = <<>> /\ begun = <<>>

\* C19: the constructor registers every entry the store returned, in the
\* order returned, as a timed entry with the stored task, light set and
\* start time, and store.Add is not called while it does so.
C19_RecoversEveryStoredEntry ==
  [][/\ recover'.all = recover.all
     /\ recover'.done # recover.done =>
          /\ recover'.done = recover.done + 1
          /\ recover'.done <= Len(recover.all)
          /\ LET r == recover.all[recover'.done]
             IN \E i \in 1..Len(scheduled') :
                  /\ scheduled'[i].t = [H |-> r.H, Ls |-> r.Ls,
                                        StartTime |-> r.Time * 2]
                  /\ scheduled'[i].pc = "do" /\ ~scheduled'[i].ended
                  /\ scheduled'[i].e = nextTimer
                  /\ \A x \in TimerEntries : x.e # nextTimer
     /\ \A c \in DOMAIN call :
          /\ call[c].op = "New" => storeCalls.add = 0 /\ storeCalls'.add = 0
          /\ (call[c].op = "New" /\ call'[c].op # "New") =>
               recover.done = Len(recover.all)]_vars

\* the constructor has returned; the stored entry is registered, asleep
\* until its start time, and store.Add was not called
C19_Witness ==
  /\ \A c \in DOMAIN call : call[c].op # "New"
  /\ Len(recover.all) = 1 /\ recover.done = 1 /\ storeCalls.add = 0
  /\ \E x \in TimerEntries :
       /\ x.pc = "sleep" /\ ~x.ended
       /\ x.t.H = recover.all[1].H /\ x.t.Ls = recover.all[1].Ls
       /\ Unix(x.t.StartTime) = recover.all[1].Time

\* the calls of Cancel that have returned and had found a pending entry: one
\* whose execution had reached neither Begin nor store.Remove
CancelReturned(cl) ==
  {c \in DOMAIN cl : /\ cl[c].op = "Cancel" /\ cl[c].pc = "ret" /\ cl[c].e # Nil
                     /\ cl[c].found \in {"do", "sleep"}}

\* C20: when Cancel returns for a pending entry it found, the entry's
\* execution is over: the entry is not in Scheduled(), the store has no record with its
\* schedule id, and since executions are never registered again and Begin is
\* only called by a registered execution, its task is not handed to the
\* executor afterwards.
C20_CancelReturnsAfterExecution ==
  [][/\ \A c \in CancelReturned(call) :
          /\ \A x \in TimerEntries : x.e # call[c].e
          /\ \A k \in 1..Len(store) : store[k].Id # TimerTaskId(call[c].timer)
     /\ \A c \in CancelReturned(call') :
          /\ \A i \in 1..Len(scheduled') : scheduled'[i].e # call'[c].e
          /\ \A k \in 1..Len(store') : store'[k].Id # TimerTaskId(call'[c].timer)
     /\ \A i \in 1..Len(scheduled') :
          \/ \E x \in TimerEntries : x.e = scheduled'[i].e
          \/ scheduled'[i].e = nextTimer /\ nextTimer' = nextTimer + 1
     /\ nextTimer' >= nextTimer
     /\ begun' # begun =>
          \E x \in TimerEntries :
            /\ Moves(x, "begin", "remove")
            /\ begun' = Append(begun, [H |-> x.t.H, Ls |-> x.t.Ls])]_vars

\* Cancel has returned for an entry that was asleep before its start time:
\* nothing is scheduled, nothing is stored, nothing was handed to the
\* executor, and store.Remove was called
C20_Witness ==
  \E c \in CancelReturned(call) :
    /\ call[c].timer.StartTime > now /\ ~IsNone(call[c].timer.Ls)
    /\ scheduled = <<>> /\ store = <<>> /\ begun = <<>>
    /\ storeCalls.remove = 1

\* the timed entry x is in the same second as the timed task t and shares a
\* light with it
Displaces(t, x) ==
  x.t.StartTime \div 2 = t.StartTime \div 2 /\ Overlap(x.t.Ls, t.Ls)

Scheduling(cl) == {c \in DOMAIN cl : cl[c].op = "Schedule" /\ cl[c].e # Nil}

\* C22: schedule returns to Schedule only when every entry it displaced has
\* left the collection, which an entry does only after its store.Remove has
\* deleted the records with its own schedule id; Schedule's store.Add of the
\* new entry comes after that, and Schedule returns only after its
\* store.Add.
C22_RemoveBeforeAdd ==
  [][/\ storeCalls.remove = PastRemove(scheduled, nextTimer - 1)
     /\ storeCalls'.remove = PastRemove(scheduled', nextTimer' - 1)
     /\ \A x \in TimerEntries :
          /\ Stays(x) \/ x.pc = "exit"
          /\ (Stays(x) /\ Next_(x).pc = "exit" /\ x.pc # "exit") =>
               /\ x.pc = "remove"
               /\ storeCalls'.remove = storeCalls.remove + 1
               /\ storeCalls'.add = storeCalls.add
               /\ store' = SelectSeq(store, LAMBDA r : r.Id # TimerTaskId(x.t))
     /\ \A c \in DOMAIN call :
          /\ (call'[c].pc = "add" /\ call[c].pc # "add") =>
               /\ sloop.state = "interrupt" /\ sloop.caller = c
               /\ \A x \in TimerEntries : x.e \notin sloop.conflicts
               /\ storeCalls' = storeCalls
          /\ (call'[c].pc = "ret" /\ call[c].pc # "ret" /\ c \in Scheduling(call')) =>
               /\ call[c].pc = "add"
               /\ storeCalls'.add = storeCalls.add + 1
               /\ storeCalls'.remove = storeCalls.remove
               /\ store' = Append(store,
                                  [Id |-> TimerTaskId(call[c].timer),
                                   H |-> call[c].timer.H, Ls |-> call[c].timer.Ls,
                                   Time |-> call[c].timer.StartTime \div 2])
     /\ storeCalls'.add # storeCalls.add =>
          \E c \in DOMAIN call : call[c].pc = "add" /\ call'[c].pc = "ret"]_vars

\* Schedule is waiting for an entry it displaced; the entry was asleep
\* before its start time, its store.Remove has deleted its record and the
\* store.Add of the new entry is still to come
C22_Witness ==
  /\ sloop.state = "interrupt" /\ call[sloop.caller].op = "Schedule"
  /\ storeCalls = [add |-> 1, remove |-> 1] /\ store = <<>>
  /\ \E x \in TimerEntries :
       /\ x.e \in sloop.conflicts /\ x.ended /\ x.pc = "exit"
       /\ now < x.t.StartTime

\* C23: Base and Extra are never both resumed; Base is the resumed one while
\* the loop of the Stack waits for a Push, and Extra is the resumed one
\* between the acknowledgement of a Push and its Pop.
C23_NeverBothActive ==
  /\ stack.paused.Base \/ stack.paused.Extra
  /\ stack.pc = "first" => ~stack.paused.Base /\ stack.paused.Extra
  /\ stack.pc = "third" => stack.paused.Base /\ ~stack.paused.Extra

\* the positions of Stack.loop in the order of its statements
StackOrder ==
  <<"first", "basePause", "basePausing", "snapshot", "extraResume", "second",
    "third", "extraPause", "restore", "baseResume", "fourth">>

StackPosition(pc) == CHOOSE i \in 1..Len(StackOrder) : StackOrder[i] = pc

\* the calls of op that return in this step
Returns(op) ==
  {c \in DOMAIN call : call[c].op = op /\ call[c].pc # "ret" /\ call'[c].pc = "ret"}

\* C24: the loop of the Stack goes through its statements in their order,
\* Base is paused, the lights sampled, Extra resumed, Extra paused, the
\* sample written back and Base resumed only by the statement that does it,
\* and Push and Pop return only by the acknowledgement at the end of their
\* half of the cycle.
C24_PushPopOrder ==
  [][/\ stack'.pc # stack.pc =>
          \/ StackPosition(stack'.pc) = StackPosition(stack.pc) + 1
          \/ stack.pc = "fourth" /\ stack'.pc = "first"
          \/ stack.pc = "extraPause" /\ stack'.pc = "baseResume" /\ stack.colors.nil
     /\ stack'.paused.Base # stack.paused.Base =>
          \/ stack.pc = "basePausing" /\ stack'.pc = "snapshot" /\ stack'.paused.Base
          \/ stack.pc = "baseResume" /\ stack'.pc = "fourth" /\ ~stack'.paused.Base
     /\ stack'.paused.Extra # stack.paused.Extra =>
          \/ stack.pc = "extraResume" /\ stack'.pc = "second" /\ ~stack'.paused.Extra
          \/ stack.pc = "extraPause" /\ stack'.pc # "extraPause" /\ stack'.paused.Extra
     /\ stack'.colors # stack.colors => stack'.pc = "snapshot"
     /\ stack'.attempted # stack.attempted =>
          \/ stack.pc = "restore" /\ stack'.pc = "restore"
          \/ stack.pc = "extraPause" /\ stack'.attempted = {}
     /\ \A c \in Returns("Push") :
          /\ stack.pc = "second" /\ stack'.pc = "third"
          /\ stack.paused.Base /\ ~stack.paused.Extra
          /\ stack.colors.nil \/ DOMAIN stack.colors.of = AllLights.ids
     /\ \A c \in Returns("Pop") :
          /\ stack.pc = "fourth" /\ stack'.pc = "first"
          /\ stack.paused.Extra /\ ~stack.paused.Base
          /\ stack.colors.nil \/ stack.attempted # {}]_vars

\* a Pop has returned: Extra is paused, every sampled light was written and
\* Base is resumed
C24_Witness ==
  /\ \E c \in DOMAIN call : call[c].op = "Pop" /\ call[c].pc = "ret"
  /\ stack.pc = "first" /\ stack.paused.Extra /\ ~stack.paused.Base
  /\ ~stack.colors.nil /\ stack.attempted = AllLights.ids

\* the callers that wait for the acknowledgement of their Push, of their Pop
Waiting(pc) == {c \in DOMAIN call : call[c].pc = pc}

\* C25: the loop takes a Push only while it waits for one, which after a
\* cycle has begun is only after the Pop of that cycle was acknowledged, and
\* it takes a Pop only after the Push of the cycle was acknowledged; so at
\* most one Push and at most one Pop are in progress and Base is paused and
\* the lights sampled once per cycle.
C25_OneCycleAtATime ==
  [][/\ Cardinality(Waiting("second")) =
          (IF StackPosition(stack.pc) \in 2..6 THEN 1 ELSE 0)
     /\ Cardinality(Waiting("fourth")) =
          (IF StackPosition(stack.pc) \in 8..11 THEN 1 ELSE 0)
     /\ \A c \in DOMAIN call :
          /\ (call[c].pc = "first" /\ call'[c].pc # "first") =>
               /\ stack.pc = "first" /\ stack'.pc = "basePause"
               /\ Waiting("second") = {} /\ Waiting("fourth") = {}
          /\ (call[c].pc = "third" /\ call'[c].pc # "third") =>
               /\ stack.pc = "third" /\ stack'.pc = "extraPause"
               /\ Waiting("second") = {} /\ Waiting("fourth") = {}
     /\ (stack'.pc = "basePause" /\ stack.pc # "basePause") => stack.pc = "first"
     /\ (stack'.pc = "snapshot" /\ stack.pc # "snapshot") =>
          stack.pc = "basePausing"
     /\ (stack'.pc = "first" /\ stack.pc # "first") => Returns("Pop") # {}]_vars

\* a second Push waits while the first one has been acknowledged and no Pop
\* has come yet
C25_Witness ==
  /\ stack.pc = "third"
  /\ Cardinality(Waiting("first")) = 1
  /\ \E c \in DOMAIN call : call[c].op = "Push" /\ call[c].pc = "ret"

\* C26: when Snapshot returns an error the loop goes on: Extra is resumed
\* and the Push acknowledged; and a Pop that finds no snapshot writes no
\* light, resumes Base and is acknowledged.
C26_ReadErrorDoesNotAbort ==
  [][/\ (stack.pc = "snapshot" /\ stack'.pc # "snapshot") =>
          stack'.pc = "extraResume"
     /\ (stack.pc = "extraResume" /\ stack'.pc # "extraResume") =>
          stack'.pc = "second" /\ ~stack'.paused.Extra
     /\ (stack.pc = "second" /\ stack'.pc # "second") => Returns("Push") # {}
     /\ (stack.colors.nil /\ stack.pc = "extraPause" /\ stack'.pc # "extraPause") =>
          /\ stack'.pc = "baseResume" /\ stack'.paused.Extra
          /\ stack'.lights = stack.lights /\ stack'.attempted = {}
     /\ (stack.colors.nil /\ stack.pc \in {"baseResume", "fourth"}) =>
          /\ stack.attempted = {} /\ stack'.attempted = {}
          /\ stack'.lights # stack.lights => stack'.pc = stack.pc
     /\ (stack.pc = "baseResume" /\ stack'.pc # "baseResume") =>
          stack'.pc = "fourth" /\ ~stack'.paused.Base
     /\ (stack.pc = "fourth" /\ stack'.pc # "fourth") => Returns("Pop") # {}]_vars

\* a Pop has returned at the end of a cycle whose Snapshot returned an error:
\* no light was written and Base is resumed
C26_Witness ==
  /\ \E c \in DOMAIN call : call[c].op = "Pop" /\ call[c].pc = "ret"
  /\ stack.pc = "first" /\ stack.colors.nil /\ stack.attempted = {}
  /\ ~stack.paused.Base

\* C27: when Restore has returned, every light of the snapshot has been
\* written or the write attempted.
C27_EveryLightWritten ==
  (stack.pc = "baseResume" /\ ~stack.colors.nil) =>
    stack.attempted = DOMAIN stack.colors.of

\* C28 as stated: Pause tells no running execution to end, and the running
\* tasks remain registered while the executor is paused.
C28_PauseLeavesRunning ==
  [][/\ (loop.state = "idle" /\ loop'.state = "pause") => tasks' = tasks
     /\ (stack'.paused.Base /\ ~stack.paused.Base) => tasks' = tasks]_vars

\* C28: Pause tells every running execution to end and returns, with the
\* executor paused, only when all of them have left the collection; while
\* it is paused the executor starts no task; Resume ends nothing and only
\* lets the executor start tasks again.
C28_PauseEndsRunning ==
  [][/\ (loop.state = "idle" /\ loop'.state = "pause") =>
          /\ Len(tasks') = Len(tasks)
          /\ \A i \in 1..Len(tasks) : tasks'[i] = [tasks[i] EXCEPT !.ended = TRUE]
     /\ (stack'.paused.Base /\ ~stack.paused.Base) =>
          loop.state = "pause" /\ loop'.state = "idle" /\ tasks = <<>>
     /\ stack.paused.Base => tasks' = <<>> /\ loop' = loop
     /\ (stack.paused.Base /\ ~stack'.paused.Base) =>
          UNCHANGED <<tasks, loop, call>>
     /\ Len(tasks') > Len(tasks) => ~stack.paused.Base /\ ~stack'.paused.Base]_vars

\* Pause has told the running tasks of Base to end and waits for them
C28_Witness ==
  /\ stack.pc = "basePausing" /\ loop.state = "pause"
  /\ Len(tasks) = 2
  /\ \A i \in 1..Len(tasks) : tasks[i].ended /\ tasks[i].e \in loop.conflicts

\* C29: Pause returns only when no task is registered, no task is
\* registered while the executor is paused, and so from the return of
\* Base.Pause until Base.Resume no task of Base sets a light: the lights
\* Snapshot reads are changed by nothing, unless Extra was handed in
\* running.
C29_PauseWaitsForTasks ==
  [][/\ (stack.pc = "basePausing" /\ stack'.pc # "basePausing") =>
          tasks = <<>> /\ tasks' = <<>> /\ stack'.paused.Base
     /\ stack.paused.Base => tasks = <<>>
     /\ (StackPosition(stack.pc) \in 4..10 /\ stack.pc = stack'.pc) =>
          \A l \in LightIds :
            stack'.lights[l] # stack.lights[l] =>
              \/ ~stack.paused.Extra /\ stack'.lights[l] = 1
              \/ stack.pc = "restore" /\ stack'.lights[l] = stack.colors.of[l]
     /\ (stack.pc = "snapshot" /\ stack.paused.Extra) =>
          stack'.lights = stack.lights]_vars

\* Base.Pause has returned while the Start that started a task has not yet
\* returned to its caller: the task was stopped, Snapshot is reading
C29_Witness ==
  /\ stack.pc = "snapshot" /\ stack.paused.Base /\ stack.paused.Extra
  /\ tasks = <<>> /\ nextExec > 1
  /\ \E c \in DOMAIN call : call[c].op = "Start" /\ call[c].pc = "ret"
  /\ \E c \in DOMAIN call : call[c].pc = "second"

\* C30: Conflicts(candidate) is the slice of the executions of exactly the
\* registered entries whose light set overlaps the candidate's, each once
\* and in the order of their insertion; for the nil candidate it is the
\* slice of the executions of all entries.  Start ends the executions of
\* the slice of its task, Pause those of the slice of nil.
C30_ConflictsInOrder ==
  [][(loop.state = "idle" /\ loop'.state \in {"interrupt", "pause"}) =>
       \A task \in {IF loop'.state = "pause" THEN NilTask ELSE loop'.t, NilTask} :
         LET result == ConflictsSlice(tasks, task)
             hits == {i \in 1..Len(tasks) :
                        task = NilTask \/ Overlap(tasks[i].t.Ls, task.Ls)}
         IN /\ Len(result) = Cardinality(hits)
            /\ \A i \in hits :
                 result[Cardinality({j \in hits : j < i}) + 1] = tasks[i].e
            /\ task = NilTask => result = [i \in 1..Len(tasks) |-> tasks[i].e]
            /\ (loop'.state = "pause" \/ task # NilTask) =>
                 loop'.conflicts = {result[k] : k \in 1..Len(result)}]_vars

\* Pause has taken Conflicts(nil) of a collection of two entries: both
\* executions, the one inserted first being the older one
C30_Witness ==
  /\ loop.state = "pause" /\ loop.op = "Pause"
  /\ Len(tasks) = 2
  /\ tasks[1].e < tasks[2].e
  /\ loop.conflicts = {tasks[1].e, tasks[2].e}
\* the goroutines whose call of op goes, in this step, from pc to its return
Finishing(op, pc) ==
  {c \in DOMAIN call : /\ call[c].op = op /\ call[c].pc = pc
                       /\ call'[c].pc = "ret"}

\* C31: Remove(task) takes out of the collection the one entry that holds
\* the task and nothing else, the other entries keeping their order; when
\* no entry holds the task the collection stays as it is, and so a second
\* Remove of the task changes nothing.
C31_RemoveDeletesOneEntry ==
  [][\A c \in Finishing("Remove", "found") :
       LET held == {i \in 1..Len(tasks) : tasks[i].e = call[c].e}
       IN /\ held = {} => tasks' = tasks
          /\ held # {} => Len(tasks') = Len(tasks) - 1
          /\ tasks' = SelectSeq(tasks, LAMBDA x : x.e # call[c].e)
          /\ Remove(tasks', call[c].e) = tasks']_vars

\* Remove has taken the first of two entries out: the second has moved down
C31_Witness ==
  \E c \in DOMAIN call :
    /\ call[c].op = "Remove" /\ call[c].pc = "ret" /\ call[c].local.idx = 1
    /\ Len(tasks) = 1 /\ tasks[1].e > call[c].e

\* C32: FindByTaskId(id) returns the execution of an entry whose TaskId is
\* id, and nil when the collection holds no entry with that TaskId.
C32_FindByTaskIdExact ==
  [][\A c \in Finishing("FindByTaskId", "locked") :
       LET hits == {i \in 1..Len(tasks) : TaskId(tasks[i].t) = call[c].local.id}
       IN /\ hits = {} => call'[c].e = Nil
          /\ hits # {} => \E i \in hits : call'[c].e = tasks[i].e]_vars

\* FindByTaskId has returned the execution of the second entry; the first
\* entry has the same hue task on other lights
C32_Witness ==
  \E c \in DOMAIN call :
    /\ call[c].op = "FindByTaskId" /\ call[c].pc = "ret"
    /\ Len(tasks) = 2 /\ tasks[2].e = call[c].e
    /\ tasks[1].t.H = tasks[2].t.H /\ tasks[1].t.Ls # tasks[2].t.Ls

\* C34: with the methods of the collection called by several goroutines at
\* once, the collection changes only by the whole effect of one Add or one
\* Remove at a time; Tasks returns what the collection holds at the instant
\* it returns, Conflicts and FindByTaskId what it holds at theirs; and the
\* slice Tasks has returned stays as it is whatever is added or removed
\* afterwards.
C34_MethodsAtomic ==
  [][/\ \A c \in Finishing("Tasks", "copy") :
          call'[c].local.result = Tasks(tasks) /\ tasks' = tasks
     /\ \A c \in DOMAIN call :
          (call[c].op = "Tasks" /\ call[c].pc = "ret" /\ call'[c].pc = "ret") =>
            call'[c].local.result = call[c].local.result
     /\ \A c \in Finishing("Add", "locked") :
          tasks' = Append(tasks, [t |-> call[c].t, e |-> call[c].e, ended |-> FALSE])
     /\ \A c \in Finishing("Remove", "found") :
          tasks' = SelectSeq(tasks, LAMBDA x : x.e # call[c].e)
     /\ \A c \in Finishing("Conflicts", "locked") :
          /\ call'[c].local.result = ConflictsSlice(tasks, call[c].t)
          /\ tasks' = tasks
     /\ \A c \in Finishing("FindByTaskId", "locked") :
          call'[c].e = FindByTaskId(tasks, call[c].local.id) /\ tasks' = tasks
     /\ tasks' # tasks =>
          Finishing("Add", "locked") \cup Finishing("Remove", "found") # {}]_vars

\* Tasks is copying the second of two entries while a Remove of another
\* goroutine waits for the lock
C34_Witness ==
  \E c, d \in DOMAIN call :
    /\ call[c].op = "Tasks" /\ call[c].pc = "copy"
    /\ call[c].local.n = 2 /\ Len(call[c].local.result) = 1
    /\ call[d].op = "Remove" /\ call[d].pc = "Lock" /\ call[d].e = tasks[1].e

\* C35: InvString applied to the string String gives for a light set
\* returns that light set and no error, for All, for None and for every set
\* New builds from positive ids; String gives "All", "None" or the ids in
\* ascending order, comma separated.
C35_InvStringInvertsString ==
  obs.op = "InvString" =>
    \A l \in {All, None} \cup {New(ids) : ids \in SUBSET LightIds} :
      obs.str = String(l) =>
        /\ obs.ret = "ok" /\ obs.result = l
        /\ l = All => obs.str = <<"All">>
        /\ l = None => obs.str = <<"None">>
        /\ l \notin {All, None} =>
             /\ Len(obs.str) = Cardinality(l.ids)
             /\ \A k \in 1..Len(obs.str) :
                  /\ \E i \in l.ids : obs.str[k] = ToString(i)
                  /\ \A j \in 1..(k - 1) :
                       \E i1, i2 \in l.ids :
                         /\ i1 < i2
                         /\ obs.str[j] = ToString(i1) /\ obs.str[k] = ToString(i2)

\* InvString has parsed the string of a set of two lights
C35_Witness ==
  /\ obs.op = "InvString" /\ obs.ret = "ok"
  /\ obs.str = <<ToString(1), ToString(MaxLight)>>
  /\ obs.result = New({1, MaxLight})

\* C36 as stated: Subtract with All as the set to take away from an
\* explicit set fails and yields no set.
C36_SubtractAllFails ==
  (obs.op = "Subtract" /\ ~IsAll(obs.lightSet) /\ IsAll(obs.other)) =>
    obs.ret = "panic"

\* C36: Subtract with All as the set to take away from an explicit set
\* yields None; Subtract fails exactly when the set taken from is All.
C36_SubtractAllIsNone ==
  obs.op = "Subtract" =>
    /\ obs.ret = "panic" <=> IsAll(obs.lightSet)
    /\ (~IsAll(obs.lightSet) /\ IsAll(obs.other)) =>
         obs.ret = "ok" /\ obs.result = None

\* All has been subtracted from a set of two lights
C36_Witness ==
  /\ obs.op = "Subtract" /\ obs.lightSet = New({1, MaxLight})
  /\ IsAll(obs.other) /\ obs.result = None /\ obs.ret = "ok"

\* C38: with a UsedLights that obeys the two axioms, whenever MaybeStart
\* comes to subtract the lights in use from the lights needed, the lights
\* UsedLights gives for the needed and available lights are within the
\* lights needed and are not All, and MaybeStart does not panic.
C38_WillUseWithinNeeded ==
  obs.op = "MaybeStart" =>
    /\ obs.ret # "panic"
    /\ LET neededLights == anyAction[obs.lightSet]
           available == New(Lights(neededLights) \ InUse(obs.registered))
       IN (/\ obs.registered # <<>>
           /\ ~IsNone(neededLights) /\ ~IsAll(neededLights)
           /\ \A i \in 1..Len(obs.registered) : ~IsAll(obs.registered[i].Ls)
           /\ ~IsNone(available)) =>
            /\ Lights(anyAction[available]) \subseteq Lights(neededLights)
            /\ ~IsAll(anyAction[available])
            /\ obs.ret = "pending" => obs.t.Ls = anyAction[available]

\* MaybeStart starts the task on fewer lights than it needed, a task
\* running on the others
C38_Witness ==
  /\ obs.op = "MaybeStart" /\ obs.ret = "pending"
  /\ obs.registered # <<>>
  /\ obs.t.Ls # anyAction[obs.lightSet]
  /\ Within(obs.t.Ls, anyAction[obs.lightSet])

\* C37: the store.Remove of a timed task does not come before the store.Add
\* of the Schedule that started it, and once that Schedule has returned and
\* the timed execution is done the store holds no record with its id.
C37_RemoveAfterAdd ==
  /\ [][\A x \in TimerEntries :
          Moves(x, "remove", "exit") =>
            \A c \in DOMAIN call :
              ~(call[c].op = "Schedule" /\ call[c].pc = "add" /\ call[c].e = x.e)]_vars
  /\ [](\A c \in DOMAIN call :
          (/\ call[c].op = "Schedule" /\ call[c].pc = "ret"
           /\ call[c].e # Nil /\ TimerDone(call[c].e)) =>
            \A k \in 1..Len(store) : store[k].Id # TimerTaskId(call[c].timer))

\* the timed tasks of the collection after the step
TimerEntriesNext == {scheduled'[i] : i \in 1..Len(scheduled')}

\* C33: a task is put into the collection in the step that starts its
\* execution and is taken out in the step that closes the Done channel of
\* the execution, and in no other; so no task in the collection has an
\* execution that is done, neither Scheduled() nor Tasks() holds such a
\* task, and FindByTaskId with its id does not return that execution.
C33_RegisteredWhileRunning ==
  /\ [](/\ \A x \in TimerEntries : x.e \notin done.timer
        /\ \A i \in 1..Len(tasks) : tasks[i].e \notin done.e)
  /\ [][/\ \A e \in 1..nextTimer :
             (\E x \in TimerEntriesNext : x.e = e) /\ ~(\E x \in TimerEntries : x.e = e)
               <=> (e = nextTimer /\ nextTimer' = nextTimer + 1)
        /\ \A x \in TimerEntries :
             /\ ~Stays(x) <=> x.e \in done'.timer \ done.timer
             /\ ~Stays(x) =>
                  /\ TimerFindByTaskId(scheduled', TimerTaskId(x.t)) # x.e
                  /\ \A i \in 1..Len(Tasks(scheduled')) :
                       Tasks(scheduled')[i] # x.t \/ scheduled'[i].e # x.e
        /\ \A e \in done'.timer \ done.timer : \E x \in TimerEntries : x.e = e]_vars

\* a timed task has begun its hue task and its execution is done: it is out
\* of the collection
C33_Witness ==
  /\ 1 \in done.timer /\ begun # <<>>
  /\ \A x \in TimerEntries : x.e # 1

\* C39 and C25 speak of the same cycle; a Push is outstanding from its
\* acknowledgement to the acknowledgement of the next Pop
Outstanding(pc) ==
  pc \in {"third", "extraPause", "restore", "baseResume", "fourth"}

\* C39: while no Push is outstanding a Pop that was called stays where it
\* is, Extra is not paused, no light is written from a snapshot and Base is
\* not resumed; a Push becomes outstanding only by the acknowledgement of a
\* Push and ceases to be so only by the acknowledgement of one Pop, so that
\* the Pops acknowledged never outnumber the Pushes acknowledged.
C39_PopWaitsForPush ==
  [][/\ ~Outstanding(stack.pc) =>
          /\ \A c \in DOMAIN call :
               (call[c].op = "Pop" /\ call[c].pc = "third") => call'[c] = call[c]
          /\ Returns("Pop") = {}
          /\ stack'.paused.Extra => stack.paused.Extra
          /\ stack'.attempted = stack.attempted
          /\ stack.paused.Base /\ ~stack'.paused.Base => FALSE
     /\ (Outstanding(stack'.pc) /\ ~Outstanding(stack.pc)) =>
          Cardinality(Returns("Push")) = 1 /\ Returns("Pop") = {}
     /\ (~Outstanding(stack'.pc) /\ Outstanding(stack.pc)) =>
          Cardinality(Returns("Pop")) = 1 /\ Returns("Push") = {}
     /\ Returns("Push") # {} => ~Outstanding(stack.pc) /\ Outstanding(stack'.pc)
     /\ Returns("Pop") # {} => Outstanding(stack.pc) /\ ~Outstanding(stack'.pc)]_vars

\* a Pop has been called with no Push outstanding while the Push of
\* another goroutine is on its way: the Pop waits
C39_Witness ==
  \E c, d \in DOMAIN call :
    /\ call[c].op = "Pop" /\ call[c].pc = "third"
    /\ call[d].op = "Push" /\ call[d].pc = "second"
    /\ stack.pc = "snapshot"

====
